---------------------------- MODULE Spec2Model ----------------------------
(***************************************************************************)
(* A model of SUtilities: the unit algebra of include/units.hpp, the       *)
(* ordering of include/TypeList.hpp and the singleton of Singleton.hpp.    *)
(*                                                                         *)
(* units.hpp computes on types: a Pack is a type list, a PowerType is a    *)
(* base unit raised to a rational power, and a Unit<T, scale, Semantic,    *)
(* Units> is a value of type T tagged with a scale and two packs.  A type  *)
(* the compiler refuses to form (a failed static_assert, no viable         *)
(* overload) is modelled as the quantity Rejected.  The numeric type T is  *)
(* double, modelled by exact rationals.                                    *)
(*                                                                         *)
(* Specifications: Spec (quantities), TypeSpec (packs), PowerTypeSpec (one *)
(* PowerType), OrderSpec (order_t), SingletonSpec (one Singleton, several  *)
(* threads) and LongevitySpec (the longevity tracker).                     *)
(***************************************************************************)
EXTENDS Integers, Sequences, FiniteSets, TLC

(***************************************************************************)
(* Bounds of the model.                                                    *)
(***************************************************************************)
\* scales of the quantities written directly: 1..MaxScale
MaxScale == 2
\* values of the quantities written directly: 1..MaxVal
MaxVal == 2
\* how many times a result is fed back as the left operand
MaxDepth == 1
\* pow<p, q> is applied for p in 0..MaxPowNum
MaxPowNum == 2

\* the packs a type-level expression is applied to: the first has at most
\* MaxLenA terms, the second at most MaxLenB
MaxLenA == 3
MaxLenB == 2
\* the exponents n/d of the one-term packs: n in -MaxNum..MaxNum, d in
\* 1..MaxDen
MaxNum == 3
MaxDen == 3

\* The threads that call get() concurrently
NumThreads == 2

\* The Singleton instantiations with a longevity, and their largest longevity
NumSingletons == 3
MaxLongevity == 3

\* The longest TypeList that is ordered
MaxListLen == 3

(***************************************************************************)
(* Base unit registry: SEMANTIC_UNIT_TYPE is UnitBase<file_hash(__FILE__), *)
(* __LINE__>.                                                              *)
(***************************************************************************)

\* The structs a program declares with SEMANTIC_UNIT_TYPE: those of
\* test/units_test.cpp, and Feet, declared in another file of the program.
Meters == [name |-> "Meters", file |-> "units_test.cpp", line |-> 4]

Seconds == [name |-> "Seconds", file |-> "units_test.cpp", line |-> 5]

Length == [name |-> "Length", file |-> "units_test.cpp", line |-> 11]

Width == [name |-> "Width", file |-> "units_test.cpp", line |-> 12]

Depth == [name |-> "Depth", file |-> "units_test.cpp", line |-> 13]

Feet == [name |-> "Feet", file |-> "other_test.cpp", line |-> 4]

DeclSites == {Meters, Seconds, Length, Width, Depth, Feet}

\* file_hash(char const (&)[N]) returns N-1, the length of the file name.
file_hash(f) == Len(f)

\* UnitBase<major, minor>::id = uint64_t(major) << 32 | minor.  minor is a
\* uint32_t, so the 64-bit number orders as the pair <<major, minor>> does.
UnitBaseId(major, minor) == <<major, minor>>

\* The id of a struct deriving from SEMANTIC_UNIT_TYPE.
UnitId(u) == UnitBaseId(file_hash(u.file), u.line)

\* EmptyPack::id = ~0, the largest uint64_t; no declared unit reaches it.
EmptyPackId == <<-1, -1>>

\* x < y on ids (uint64_t comparison).
IdLess(x, y) ==
    IF x = EmptyPackId THEN FALSE
    ELSE IF y = EmptyPackId THEN TRUE
    ELSE x[1] < y[1] \/ (x[1] = y[1] /\ x[2] < y[2])

(***************************************************************************)
(* Arithmetic of the numeric type T = double, as exact rationals, and of   *)
(* int (C++ / and % truncate towards zero).                                *)
(***************************************************************************)
Abs(x) == IF x < 0 THEN -x ELSE x

Sgn(x) == IF x < 0 THEN -1 ELSE IF x > 0 THEN 1 ELSE 0

\* C++ a / b on int, b # 0
CDiv(x, y) == Sgn(x) * Sgn(y) * (Abs(x) \div Abs(y))

\* C++ a % b on int, b # 0
CRem(x, y) == Sgn(x) * (Abs(x) % Abs(y))

RECURSIVE gcd(_, _)
\* constexpr int gcd(int a, int b)
gcd(x, y) == IF y = 0 THEN x ELSE gcd(y, CRem(x, y))

\* A value of T: the rational n/d in lowest terms, d > 0.
Rat(n, d) ==
    LET g == Abs(gcd(n, d))
        s == IF d < 0 THEN -1 ELSE 1
    IN  [n |-> s * (n \div g), d |-> (s * d) \div g]

RatInt(k) == [n |-> k, d |-> 1]

RatMul(x, y) == Rat(x.n * y.n, x.d * y.d)

RatDiv(x, y) == Rat(x.n * y.d, x.d * y.n)

RatAdd(x, y) == Rat(x.n * y.d + y.n * x.d, x.d * y.d)

RatSub(x, y) == Rat(x.n * y.d - y.n * x.d, x.d * y.d)

(***************************************************************************)
(* Type lists.  Pack<EmptyPack> is the empty sequence; a PowerType<Unit,   *)
(* num, den> is the record [unit, num, den].                               *)
(***************************************************************************)

PowerType(u, num, den) == [unit |-> u, num |-> num, den |-> den]

\* PowerType with only its second static_assert
PowerTypeOK_AnyDen(t) == gcd(t.den, t.num) = 1 \/ gcd(t.den, t.num) = -1

\* The static_asserts of PowerType: den > 0, and lowest terms.
PowerTypeOK(t) ==
    /\ t.den > 0
    /\ (gcd(t.den, t.num) = 1 \/ gcd(t.den, t.num) = -1)

\* PowerType<Unit, num, den>::id = Unit::id
PowerId(t) == UnitId(t.unit)

\* UnitIdComparator<A, B>::value = A::id < B::id
UnitIdComparator(x, y) == IdLess(PowerId(x), PowerId(y))

EmptyPack == << >>

\* pack_cons: T consed onto the front; onto Pack<EmptyPack> it is Pack<T>
pack_cons(t, p) == <<t>> \o p

\* pack_head / pack_tail of a non-empty pack
pack_head(p) == Head(p)

pack_tail(p) == Tail(p)

RECURSIVE MinType_Greater(_)
\* Mutant of MinType: Comparator<TailMinType, Head> selects the head.
MinType_Greater(p) ==
    IF Len(p) = 1 THEN p[1]
    ELSE LET TailMinType == MinType_Greater(Tail(p))
         IN  IF UnitIdComparator(TailMinType, Head(p)) THEN Head(p)
             ELSE TailMinType

RECURSIVE MinType(_)
\* MinType<Comparator, Head, Tail...>: Head if it compares less than the
\* minimum of the tail, else the minimum of the tail
MinType(p) ==
    IF Len(p) = 1 THEN p[1]
    ELSE LET TailMinType == MinType(Tail(p))
         IN  IF UnitIdComparator(Head(p), TailMinType) THEN Head(p)
             ELSE TailMinType

RECURSIVE RemoveType(_, _)
\* RemoveType<T, Head, Tail...>: the pack without the first occurrence of T
RemoveType(t, p) ==
    IF p = EmptyPack THEN EmptyPack
    ELSE IF t = Head(p) THEN Tail(p)
    ELSE pack_cons(Head(p), RemoveType(t, Tail(p)))

RECURSIVE SortTypes(_)
\* SortTypes<UnitIdComparator, List...> (sort_unit_pack_t): selection sort
SortTypes(p) ==
    IF Len(p) <= 1 THEN p
    ELSE LET Min == MinType(p)
             TailPack == RemoveType(Min, p)
         IN  pack_cons(Min, SortTypes(TailPack))

\* Mutant of power_add: the quotients by div are taken as they are.
power_add_NoSignFix(x, y) ==
    LET num == x.num * y.den + y.num * x.den
        den == x.den * y.den
        div == gcd(num, den)
    IN  PowerType(x.unit, CDiv(num, div), CDiv(den, div))

\* power_add(PowerType<Unit, numA, denA>, PowerType<Unit, numB, denB>)
power_add(x, y) ==
    LET num == x.num * y.den + y.num * x.den
        den == x.den * y.den
        div == gcd(num, den)
        den_ == IF CDiv(den, div) < 0 THEN CDiv(-den, div) ELSE CDiv(den, div)
        num_ == IF CDiv(den, div) < 0 THEN CDiv(-num, div) ELSE CDiv(num, div)
    IN  PowerType(x.unit, num_, den_)

\* power_mult(PowerType<Unit, numA, denA>, PowerType<Unit, numB, denB>)
power_mult(x, y) ==
    LET num == x.num * y.num
        den == x.den * y.den
        div == gcd(num, den)
        den_ == IF CDiv(den, div) < 0 THEN CDiv(-den, div) ELSE CDiv(den, div)
        num_ == IF CDiv(den, div) < 0 THEN CDiv(-num, div) ELSE CDiv(num, div)
    IN  PowerType(x.unit, num_, den_)

\* same_unit_v<A, B>: both are PowerTypes of one base unit
same_unit_v(x, y) == x.unit = y.unit

\* The PowerCombiner template parameter: add_unit_powers_t or
\* mult_unit_powers_t.
PowerCombiner(comb, x, y) ==
    IF comb = "add" THEN power_add(x, y) ELSE power_mult(x, y)

RECURSIVE ConsPowerType_OntoPack(_, _, _)
\* Mutant of ConsPowerType: the combined PowerType is consed onto PowerPack
\* instead of onto Tail.
ConsPowerType_OntoPack(t, p, comb) ==
    IF p = EmptyPack THEN <<t>>
    ELSE IF same_unit_v(t, pack_head(p))
         THEN pack_cons(PowerCombiner(comb, t, pack_head(p)), p)
         ELSE pack_cons(pack_head(p), ConsPowerType_OntoPack(t, pack_tail(p), comb))

RECURSIVE ConsPowerType(_, _, _)
\* ConsPowerType<PowerType, PowerPack, PowerCombiner>
ConsPowerType(t, p, comb) ==
    IF p = EmptyPack THEN <<t>>
    ELSE IF same_unit_v(t, pack_head(p))
         THEN pack_cons(PowerCombiner(comb, t, pack_head(p)), pack_tail(p))
         ELSE pack_cons(pack_head(p), ConsPowerType(t, pack_tail(p), comb))

\* Mutant of NegatePowerType: the numerator is made negative.
NegatePowerType_MakeNegative(t) == PowerType(t.unit, -Abs(t.num), t.den)

\* NegatePowerType<PowerType<Unit, num, den>>
NegatePowerType(t) == PowerType(t.unit, -t.num, t.den)

\* NegatePowerPack (negate_power_pack_t)
NegatePowerPack(p) == [i \in 1..Len(p) |-> NegatePowerType(p[i])]

\* is_zero_power_v: PowerType<Unit, 0, den>
is_zero_power_v(t) == t.num = 0

RECURSIVE CleanPowerPack_StopAtZero(_)
\* Mutant of CleanPowerPack: a zero power at the head ends the pack.
CleanPowerPack_StopAtZero(p) ==
    IF p = EmptyPack THEN EmptyPack
    ELSE IF is_zero_power_v(pack_head(p)) THEN EmptyPack
    ELSE pack_cons(pack_head(p), CleanPowerPack_StopAtZero(pack_tail(p)))

RECURSIVE CleanPowerPack(_)
\* CleanPowerPack (clean_power_pack_t): drops the zero powers
CleanPowerPack(p) ==
    IF p = EmptyPack THEN EmptyPack
    ELSE IF is_zero_power_v(pack_head(p)) THEN CleanPowerPack(pack_tail(p))
    ELSE pack_cons(pack_head(p), CleanPowerPack(pack_tail(p)))

\* Mutant of PowerPackCombine: the heads of PackA are consed with pack_cons_t.
PowerPackCombine_NoMerge(pa, pb, comb) == pa \o pb

RECURSIVE PowerPackCombine(_, _, _)
\* PowerPackCombine<PackA, PackB, PowerCombiner>
PowerPackCombine(pa, pb, comb) ==
    IF pa = EmptyPack THEN pb
    ELSE IF pb = EmptyPack THEN pa
    ELSE ConsPowerType(pack_head(pa),
                       PowerPackCombine(pack_tail(pa), pb, comb), comb)

\* Mutant of power_pack_add: the exponents of a shared unit are multiplied.
power_pack_add_Mult(pa, pb) == PowerPackCombine(pa, pb, "mult")

\* power_pack_add_t
power_pack_add(pa, pb) == PowerPackCombine(pa, pb, "add")

\* power_pack_mult_t
power_pack_mult(pa, pb) == PowerPackCombine(pa, pb, "mult")

\* Mutant of PackConcat: the types in PackB followed by the types in PackA.
PackConcat_BThenA(pa, pb) == pb \o pa

RECURSIVE PackConcat(_, _)
\* PackConcat<PackA, PackB> (pack_concat_t)
PackConcat(pa, pb) ==
    IF pa = EmptyPack THEN pb
    ELSE IF pb = EmptyPack THEN pa
    ELSE pack_cons(pack_head(pa), PackConcat(pack_tail(pa), pb))

\* remove_pack_t<T, Pack>: RemoveType applied to the types of the pack
remove_pack(t, p) == RemoveType(t, p)

RECURSIVE PackRemoveAll(_, _)
\* PackRemoveAll<PackA, PackB> where one of its specializations is chosen
PackRemoveAll(pa, pb) ==
    IF pa = EmptyPack THEN pb
    ELSE IF pb = EmptyPack THEN EmptyPack
    ELSE remove_pack(pack_head(pa), PackRemoveAll(pack_tail(pa), pb))

\* PackRemoveAll<Pack<EmptyPack>, Pack<EmptyPack>> matches the partial
\* specializations <Pack<EmptyPack>, PackB> and <PackA, Pack<EmptyPack>>,
\* neither of which is more specialized: the instantiation is ambiguous
PackRemoveAllAmbiguous(pa, pb) == pa = EmptyPack /\ pb = EmptyPack

\* is_semantic_convertable_v<Self, Other>
is_semantic_convertable_v(self, other) ==
    self = other \/ self = EmptyPack \/ other = EmptyPack

RECURSIVE IsPackOrdered_NonStrict(_)
\* Mutant of IsPackOrdered: Head::id <= NextHead::id.
IsPackOrdered_NonStrict(p) ==
    IF p = EmptyPack THEN TRUE
    ELSE LET NextHead == IF pack_tail(p) = EmptyPack THEN EmptyPackId
                         ELSE PowerId(pack_head(pack_tail(p)))
         IN  ~IdLess(NextHead, PowerId(pack_head(p)))
             /\ IsPackOrdered_NonStrict(pack_tail(p))

RECURSIVE IsPackOrdered(_)
\* IsPackOrdered<Pack>: Head::id < NextHead::id for every head, where the
\* head of Pack<EmptyPack> is EmptyPack
IsPackOrdered(p) ==
    IF p = EmptyPack THEN TRUE
    ELSE LET NextHead == IF pack_tail(p) = EmptyPack THEN EmptyPackId
                         ELSE PowerId(pack_head(pack_tail(p)))
         IN  IdLess(PowerId(pack_head(p)), NextHead)
             /\ IsPackOrdered(pack_tail(p))

(***************************************************************************)
(* Quantities: a Unit<T, scale, Semantic, Units> holding val, a plain      *)
(* scalar of type T, a rejected expression (the program is ill-formed) or  *)
(* nothing yet.                                                            *)
(***************************************************************************)
NoSemanticType == EmptyPack

Quantity(kind, val, scale, sem, dim) ==
    [kind |-> kind, val |-> val, scale |-> scale, sem |-> sem, dim |-> dim]

Scalar(val) == Quantity("scalar", val, 1, EmptyPack, EmptyPack)

Rejected == Quantity("rejected", RatInt(0), 1, EmptyPack, EmptyPack)

None == Quantity("none", RatInt(0), 1, EmptyPack, EmptyPack)

IsUnit(x) == x.kind = "unit"

IsScalar(x) == x.kind = "scalar"

\* The value of a type-level expression: a pack
Type(p) == [kind |-> "type", pack |-> p]

IsType(x) == x.kind = "type"

\* pack_remove_all_t<PackA, PackB>
pack_remove_all(pa, pb) ==
    IF PackRemoveAllAmbiguous(pa, pb) THEN Rejected
    ELSE Type(PackRemoveAll(pa, pb))

\* Every PowerType of the pack passes PowerType's static_asserts.
PackTypesOK(p) == \A i \in 1..Len(p) : PowerTypeOK(p[i])

\* struct Unit: an instantiation is well-formed when the static_assert
\* is_pack_ordered_v<SemanticPowerPack> && is_pack_ordered_v<UnitPowerPack>
\* holds (and the PowerTypes it names are); explicit Unit(T v) : val(v)
Unit(val, scale, sem, dim) ==
    IF /\ PackTypesOK(sem) /\ PackTypesOK(dim)
       /\ IsPackOrdered(sem) /\ IsPackOrdered(dim)
    THEN Quantity("unit", val, scale, sem, dim)
    ELSE Rejected

\* Unit::get_in_base_scale: val * scale
get_in_base_scale(x) == RatMul(x.val, RatInt(x.scale))

\* Mutant of MulUnits: the scale of the product is scaleA * scaleB.
MulUnits_ScaleProduct(a, b) ==
    LET NewPowerPack == CleanPowerPack(SortTypes(power_pack_add(a.dim, b.dim)))
        NewSemantic == CleanPowerPack(SortTypes(power_pack_add(a.sem, b.sem)))
    IN  IF NewPowerPack = EmptyPack
        THEN Scalar(RatMul(RatMul(RatMul(a.val, RatInt(a.scale)), b.val),
                           RatInt(b.scale)))
        ELSE Unit(RatMul(a.val, b.val),
                  a.scale * b.scale, NewSemantic, NewPowerPack)

\* Mutant of MulUnits: the product is a scalar only when the semantic pack
\* is empty too.
MulUnits_SemanticToo(a, b) ==
    LET NewPowerPack == CleanPowerPack(SortTypes(power_pack_add(a.dim, b.dim)))
        NewSemantic == CleanPowerPack(SortTypes(power_pack_add(a.sem, b.sem)))
    IN  IF NewPowerPack = EmptyPack /\ NewSemantic = EmptyPack
        THEN Scalar(RatMul(RatMul(RatMul(a.val, RatInt(a.scale)), b.val),
                           RatInt(b.scale)))
        ELSE Unit(RatDiv(RatMul(RatMul(a.val, b.val), RatInt(b.scale)),
                         RatInt(a.scale)),
                  a.scale * a.scale, NewSemantic, NewPowerPack)

\* Mutant of MulUnits: the product keeps the semantic pack of the left operand.
MulUnits_SemanticOfLeft(a, b) ==
    LET NewPowerPack == CleanPowerPack(SortTypes(power_pack_add(a.dim, b.dim)))
    IN  IF NewPowerPack = EmptyPack
        THEN Scalar(RatMul(RatMul(RatMul(a.val, RatInt(a.scale)), b.val),
                           RatInt(b.scale)))
        ELSE Unit(RatDiv(RatMul(RatMul(a.val, b.val), RatInt(b.scale)),
                         RatInt(a.scale)),
                  a.scale * a.scale, a.sem, NewPowerPack)

\* operator*(Unit a, Unit b)
MulUnits(a, b) ==
    LET NewPowerPack == CleanPowerPack(SortTypes(power_pack_add(a.dim, b.dim)))
        NewSemantic == CleanPowerPack(SortTypes(power_pack_add(a.sem, b.sem)))
    IN  IF NewPowerPack = EmptyPack
        THEN Scalar(RatMul(RatMul(RatMul(a.val, RatInt(a.scale)), b.val),
                           RatInt(b.scale)))
        ELSE Unit(RatDiv(RatMul(RatMul(a.val, b.val), RatInt(b.scale)),
                         RatInt(a.scale)),
                  a.scale * a.scale, NewSemantic, NewPowerPack)

\* operator/(T b, Unit a): the reciprocal when b is 1
DivScalarUnit(t, a) ==
    Unit(RatDiv(t, a.val), a.scale,
         NegatePowerPack(a.sem), NegatePowerPack(a.dim))

\* operator/(Unit a, Unit b): a * (T{1} / b)
DivUnits(a, b) ==
    LET recip == DivScalarUnit(RatInt(1), b)
    IN  IF IsUnit(recip) THEN MulUnits(a, recip) ELSE Rejected

\* Mutant of AddUnits: the operands' packs Units are separate template
\* parameters, so that any two dimension packs are accepted.
AddUnits_AnyDims(a, b, sign) ==
    IF is_semantic_convertable_v(a.sem, b.sem)
    THEN LET rhs == RatDiv(RatMul(b.val, RatInt(b.scale)), RatInt(a.scale))
         IN  Quantity("unit",
                      IF sign = "+" THEN RatAdd(a.val, rhs)
                      ELSE RatSub(a.val, rhs),
                      a.scale, a.sem, a.dim)
    ELSE Rejected

\* operator+(Unit a, Unit b) and operator-(Unit a, Unit b): viable when
\* both have the pack Units and the semantic packs are convertable
AddUnits(a, b, sign) ==
    IF a.dim = b.dim /\ is_semantic_convertable_v(a.sem, b.sem)
    THEN LET rhs == RatDiv(RatMul(b.val, RatInt(b.scale)), RatInt(a.scale))
         IN  Quantity("unit",
                      IF sign = "+" THEN RatAdd(a.val, rhs)
                      ELSE RatSub(a.val, rhs),
                      a.scale, a.sem, a.dim)
    ELSE Rejected

\* a * b by overload resolution: (Unit, Unit), (Unit, T), (T, Unit), and
\* the built-in T * T
Mul(a, b) ==
    IF IsUnit(a) /\ IsUnit(b) THEN MulUnits(a, b)
    ELSE IF IsUnit(a) /\ IsScalar(b) THEN [a EXCEPT !.val = RatMul(a.val, b.val)]
    ELSE IF IsScalar(a) /\ IsUnit(b) THEN [b EXCEPT !.val = RatMul(b.val, a.val)]
    ELSE IF IsScalar(a) /\ IsScalar(b) THEN Scalar(RatMul(a.val, b.val))
    ELSE Rejected

\* a / b by overload resolution: (Unit, Unit), (Unit, T), (T, Unit), and
\* the built-in T / T
Div(a, b) ==
    IF IsUnit(a) /\ IsUnit(b) THEN DivUnits(a, b)
    ELSE IF IsUnit(a) /\ IsScalar(b) THEN [a EXCEPT !.val = RatDiv(a.val, b.val)]
    ELSE IF IsScalar(a) /\ IsUnit(b) THEN DivScalarUnit(a.val, b)
    ELSE IF IsScalar(a) /\ IsScalar(b) THEN Scalar(RatDiv(a.val, b.val))
    ELSE Rejected

\* a + b by overload resolution: (Unit, T), (T, Unit), (Unit, Unit), and
\* the built-in T + T
Add(a, b) ==
    IF IsUnit(a) /\ IsUnit(b) THEN AddUnits(a, b, "+")
    ELSE IF IsUnit(a) /\ IsScalar(b) THEN [a EXCEPT !.val = RatAdd(a.val, b.val)]
    ELSE IF IsScalar(a) /\ IsUnit(b) THEN [b EXCEPT !.val = RatAdd(b.val, a.val)]
    ELSE IF IsScalar(a) /\ IsScalar(b) THEN Scalar(RatAdd(a.val, b.val))
    ELSE Rejected

\* a - b by overload resolution: (Unit, T), (T, Unit), (Unit, Unit), and
\* the built-in T - T
Sub(a, b) ==
    IF IsUnit(a) /\ IsUnit(b) THEN AddUnits(a, b, "-")
    ELSE IF IsUnit(a) /\ IsScalar(b) THEN [a EXCEPT !.val = RatSub(a.val, b.val)]
    ELSE IF IsScalar(a) /\ IsUnit(b) THEN [b EXCEPT !.val = RatSub(a.val, b.val)]
    ELSE IF IsScalar(a) /\ IsScalar(b) THEN Scalar(RatSub(a.val, b.val))
    ELSE Rejected

RECURSIVE IPow(_, _)
\* b to the e-th power, e >= 0
IPow(b, e) == IF e = 0 THEN 1 ELSE b * IPow(b, e - 1)

\* m has an exact k-th root (m >= 0, k >= 1)
HasRoot(m, k) == \E x \in 0..m : IPow(x, k) = m

IRoot(m, k) == CHOOSE x \in 0..m : IPow(x, k) = m

\* std::pow(x, p / q) is a rational again (x > 0, q # 0)
PowExact(x, p, q) ==
    /\ x.n > 0
    /\ HasRoot(IPow(x.n, Abs(p)), Abs(q))
    /\ HasRoot(IPow(x.d, Abs(p)), Abs(q))

\* std::pow(x, static_cast<double>(p) / q), where PowExact(x, p, q)
StdPow(x, p, q) ==
    LET n == IRoot(IPow(x.n, Abs(p)), Abs(q))
        d == IRoot(IPow(x.d, Abs(p)), Abs(q))
    IN  IF Sgn(p) * Sgn(q) < 0 THEN Rat(d, n) ELSE Rat(n, d)

\* Mutant of RaiseUnitPower: the quotients by divisor are taken as they are.
RaiseUnitPower_NoSignFix(t, powerNum, powerDen) ==
    LET new_num == t.num * powerNum
        new_den == t.den * powerDen
        divisor == gcd(new_num, new_den)
    IN  IF divisor = 0 THEN PowerType(t.unit, 0, 0)
        ELSE PowerType(t.unit, CDiv(new_num, divisor), CDiv(new_den, divisor))

\* RaiseUnitPower<PowerType<Unit, unitNum, unitDen>, powerNum, powerDen>;
\* the constant expressions divide by divisor, so a zero divisor leaves no
\* well-formed PowerType
RaiseUnitPower(t, powerNum, powerDen) ==
    LET new_num == t.num * powerNum
        new_den == t.den * powerDen
        divisor == gcd(new_num, new_den)
    IN  IF divisor = 0 THEN PowerType(t.unit, 0, 0)
        ELSE LET den == IF CDiv(new_den, divisor) < 0
                        THEN CDiv(-new_den, divisor)
                        ELSE CDiv(new_den, divisor)
                 num == IF CDiv(new_den, divisor) < 0
                        THEN CDiv(-new_num, divisor)
                        ELSE CDiv(new_num, divisor)
             IN  PowerType(t.unit, num, den)

\* RaisePowerPack (raise_power_pack_t)
RaisePowerPack(p, powerNum, powerDen) ==
    [i \in 1..Len(p) |-> RaiseUnitPower(p[i], powerNum, powerDen)]

\* pow<powerNum, powerDen>(const Unit& a)
Pow(a, powerNum, powerDen) ==
    IF IsUnit(a)
    THEN Unit(StdPow(get_in_base_scale(a), powerNum, powerDen), 1,
              RaisePowerPack(a.sem, powerNum, powerDen),
              RaisePowerPack(a.dim, powerNum, powerDen))
    ELSE Rejected

\* semantic_cast<TargetSemantic>(const Unit& a)
semantic_cast(target, a) ==
    IF IsUnit(a) THEN Unit(a.val, a.scale, target, a.dim) ELSE Rejected

\* Mutant of unit_cast: the target must be the dimension pack of a.
unit_cast_SameUnits(target, a) ==
    IF IsUnit(a) /\ target = a.dim
    THEN Unit(a.val, a.scale, a.sem, target)
    ELSE Rejected

\* unit_cast<TargetUnits>(const Unit& a)
unit_cast(target, a) ==
    IF IsUnit(a) THEN Unit(a.val, a.scale, a.sem, target) ELSE Rejected

\* Unit's converting constructor, for the target Unit<T, scale, sem, Units>
\* and a source other of the same pack Units: viable when the semantic packs
\* are convertable; val(other.val * otherScale / scale)
ConvertUnit(scale, sem, other) ==
    IF is_semantic_convertable_v(sem, other.sem)
    THEN Unit(RatDiv(RatMul(other.val, RatInt(other.scale)), RatInt(scale)),
              scale, sem, other.dim)
    ELSE Rejected

\* Unit::operator=(const Unit<T, otherScale, OtherSemantic, UnitPowerPack>&):
\* the left operand afterwards
AssignUnits(a, b) ==
    IF a.dim = b.dim /\ is_semantic_convertable_v(a.sem, b.sem)
    THEN [a EXCEPT !.val = RatDiv(RatMul(b.val, RatInt(b.scale)), RatInt(a.scale))]
    ELSE Rejected

\* a = b by overload resolution: the template operator=, operator=(T v), and
\* the built-in T = T
Assign(a, b) ==
    IF IsUnit(a) /\ IsUnit(b) THEN AssignUnits(a, b)
    ELSE IF IsUnit(a) /\ IsScalar(b) THEN [a EXCEPT !.val = b.val]
    ELSE IF IsScalar(a) /\ IsScalar(b) THEN b
    ELSE Rejected

\* Mutant of AddAssignUnits: the right-hand value is not rescaled.
AddAssignUnits_NoRescale(a, b, sign) ==
    IF a.dim = b.dim /\ is_semantic_convertable_v(a.sem, b.sem)
    THEN [a EXCEPT !.val = IF sign = "+" THEN RatAdd(a.val, b.val)
                           ELSE RatSub(a.val, b.val)]
    ELSE Rejected

\* Unit::operator+= and Unit::operator-=: the left operand afterwards
AddAssignUnits(a, b, sign) ==
    IF a.dim = b.dim /\ is_semantic_convertable_v(a.sem, b.sem)
    THEN LET rhs == RatDiv(RatMul(b.val, RatInt(b.scale)), RatInt(a.scale))
         IN  [a EXCEPT !.val = IF sign = "+" THEN RatAdd(a.val, rhs)
                                ELSE RatSub(a.val, rhs)]
    ELSE Rejected

\* a += b and a -= b by overload resolution: Unit has no operator+=(T)
AddAssign(a, b, sign) ==
    IF IsUnit(a) /\ IsUnit(b) THEN AddAssignUnits(a, b, sign)
    ELSE IF IsScalar(a) /\ IsScalar(b)
         THEN Scalar(IF sign = "+" THEN RatAdd(a.val, b.val) ELSE RatSub(a.val, b.val))
    ELSE Rejected

\* Unit::operator++(): ++val
PreIncrement(a) == [a EXCEPT !.val = RatAdd(a.val, RatInt(1))]

\* Unit::operator--(): --val
PreDecrement(a) == [a EXCEPT !.val = RatSub(a.val, RatInt(1))]

\* Unit::operator++(int): Unit tmp(*this); ++(*this); return tmp;
\* the pair is <<the operand afterwards, the value returned>>
PostIncrement(a) == <<PreIncrement(a), a>>

\* Unit::operator--(int): Unit tmp(*this); ++(*this); return tmp;
PostDecrement(a) == <<PreIncrement(a), a>>

\* Unit::as_free_unit
as_free_unit(a) == Unit(a.val, a.scale, EmptyPack, a.dim)

(***************************************************************************)
(* The program: it declares its unit structs, constructs two quantities a  *)
(* and b, and evaluates expressions on them; r is the value of the last    *)
(* expression, which may become the next left operand.                     *)
(***************************************************************************)
VARIABLES
    declared,   \* the structs declared so far
    a,          \* the left operand
    b,          \* the right operand
    op,         \* the last expression evaluated: [name, p, q, target]
    r,          \* its value
    src,        \* the expression a was taken from: [name, a]
    depth,      \* how many results were taken as the left operand
    \* The state of a process that uses Singleton.hpp:
    policy,             \* the policies of each Singleton instantiation
    instance,           \* Singleton::instance of each: an object, 0 for nullptr
    isLive,             \* Singleton::isLive of each
    handles,            \* how many Singleton objects of each are constructed
    objects,            \* the objects made by createPolicy::create, in order
    mu,                 \* SingletonLockGuard::mu of each: its holder, 0 if free
    pc,                 \* where each thread is in get()
    callee,             \* the Singleton each thread calls
    ret,                \* how the last get() of each thread ended
    atexitStack,        \* the functions registered with std::atexit
    lifetimeManager,    \* the array of the longevity tracker: [state, slots]
    lifetimeElements,   \* its number of elements
    lastSchedule,       \* what the last scheduleDestruction touched
    heap,               \* the C heap: "ok" or "corrupt"
    called,             \* the Singletons destroyed, in order
    phase               \* "running", "exiting", "exited" or "aborted"

unitVars == <<declared, a, b, op, r, src, depth>>

processVars ==
    <<policy, instance, isLive, handles, objects, mu, pc, callee, ret,
      atexitStack, lifetimeManager, lifetimeElements, lastSchedule, heap,
      called, phase>>

vars == <<unitVars, processVars>>

\* The array of the tracker: nullptr, allocated with its slots, or freed
Array(state, slots) == [state |-> state, slots |-> slots]

\* What a scheduleDestruction touched: the indices of lifetimeManager read or
\* written, lifetimeElements at the call, and whether the array was freed
Touched(indices, elements, afterFree) ==
    [indices |-> indices, elements |-> elements, afterFree |-> afterFree]

\* No process: the translation unit does not use Singleton.hpp
NoProcess ==
    /\ policy = << >>
    /\ instance = << >>
    /\ isLive = << >>
    /\ handles = << >>
    /\ objects = << >>
    /\ mu = << >>
    /\ pc = << >>
    /\ callee = << >>
    /\ ret = << >>
    /\ atexitStack = << >>
    /\ lifetimeManager = Array("null", << >>)
    /\ lifetimeElements = 0
    /\ lastSchedule = Touched({}, 0, FALSE)
    /\ heap = "ok"
    /\ called = << >>
    /\ phase = "running"

\* The structs used as physical units and those used as semantic categories.
DimUnits == declared \cap {Meters, Seconds, Feet}

SemUnits == declared \cap {Length, Width, Depth}

Expr(name, p, q, target) == [name |-> name, p |-> p, q |-> q, target |-> target]

NoExpr == Expr("none", 0, 1, EmptyPack)

Source(name, x) == [name |-> name, a |-> x]

\* The quantities a program writes directly: a scalar v, or
\* Unit<double, s, Semantic, Pack<PowerType<U, 1, 1>>>(v) with Semantic
\* NoSemanticType or Pack<PowerType<S, 1, 1>> (dist_t<S> of the test)
Literals ==
    { Scalar(RatInt(v)) : v \in 1..MaxVal }
    \cup
    { Unit(RatInt(v[1]), v[2], sd[1], <<PowerType(sd[2], 1, 1)>>) :
        v \in (1..MaxVal) \X (1..MaxScale),
        sd \in ({NoSemanticType} \cup {<<PowerType(u, 1, 1)>> : u \in SemUnits})
               \X DimUnits }

\* The exponents pow is called with
PowArgs == (0..MaxPowNum) \X {1, -2}

\* The packs named as the target of a cast
CastTargets == {EmptyPack, b.sem, a.dim \o b.dim}

Init ==
    /\ declared = {}
    /\ a = None
    /\ b = None
    /\ op = NoExpr
    /\ r = None
    /\ src = Source("none", None)
    /\ depth = 0
    /\ NoProcess

\* struct <name> : SEMANTIC_UNIT_TYPE {};
Declare(u) ==
    /\ u \notin declared
    /\ declared' = declared \cup {u}
    /\ UNCHANGED <<a, b, op, r, src, depth>>
    /\ UNCHANGED processVars

\* constexpr auto a = <literal>;
ConstructA(x) ==
    /\ declared = DeclSites
    /\ a = None
    /\ a' = x
    /\ src' = Source("literal", None)
    /\ UNCHANGED <<declared, b, op, r, depth>>
    /\ UNCHANGED processVars

\* constexpr auto b = <literal>;
ConstructB(x) ==
    /\ declared = DeclSites
    /\ b = None
    /\ b' = x
    /\ UNCHANGED <<declared, a, op, r, src, depth>>
    /\ UNCHANGED processVars

\* Both operands are constructed and no expression on them is evaluated yet.
Ready == a # None /\ b # None /\ op.name = "none"

Eval(e, x) ==
    /\ Ready
    /\ op' = e
    /\ r' = x
    /\ UNCHANGED <<declared, a, b, src, depth>>
    /\ UNCHANGED processVars

\* a * b
OpMul == Eval(Expr("mul", 0, 1, EmptyPack), Mul(a, b))

\* a / b
OpDiv == Ready /\ b.val.n # 0 /\ Eval(Expr("div", 0, 1, EmptyPack), Div(a, b))

\* a + b
OpAdd == Eval(Expr("add", 0, 1, EmptyPack), Add(a, b))

\* a - b
OpSub == Eval(Expr("sub", 0, 1, EmptyPack), Sub(a, b))

\* pow<p, q>(a)
OpPow(p, q) ==
    /\ Ready
    /\ IsUnit(a)
    /\ PowExact(get_in_base_scale(a), p, q)
    /\ Eval(Expr("pow", p, q, EmptyPack), Pow(a, p, q))

\* semantic_cast<target>(a)
OpSemanticCast(target) ==
    /\ Ready
    /\ IsUnit(a)
    /\ Eval(Expr("semantic_cast", 0, 1, target), semantic_cast(target, a))

\* unit_cast<target>(a)
OpUnitCast(target) ==
    /\ Ready
    /\ IsUnit(a)
    /\ Eval(Expr("unit_cast", 0, 1, target), unit_cast(target, a))

\* An expression that changes a: op is the expression, r its value, and src
\* records the operand as it was.  A rejected expression changes nothing.
Update(e, after, x) ==
    /\ Ready
    /\ op' = e
    /\ r' = x
    /\ a' = IF x = Rejected THEN a ELSE after
    /\ src' = IF x = Rejected THEN src ELSE Source(e.name, a)
    /\ UNCHANGED <<declared, b, depth>>
    /\ UNCHANGED processVars

\* a = b
OpAssign == Update(Expr("assign", 0, 1, EmptyPack), Assign(a, b), Assign(a, b))

\* a += b
OpAddAssign ==
    Update(Expr("add_assign", 0, 1, EmptyPack), AddAssign(a, b, "+"), AddAssign(a, b, "+"))

\* a -= b
OpSubAssign ==
    Update(Expr("sub_assign", 0, 1, EmptyPack), AddAssign(a, b, "-"), AddAssign(a, b, "-"))

\* ++a
OpPreIncrement ==
    /\ Ready /\ IsUnit(a)
    /\ Update(Expr("pre_inc", 0, 1, EmptyPack), PreIncrement(a), PreIncrement(a))

\* a++
OpPostIncrement ==
    /\ Ready /\ IsUnit(a)
    /\ Update(Expr("post_inc", 0, 1, EmptyPack), PostIncrement(a)[1], PostIncrement(a)[2])

\* --a
OpPreDecrement ==
    /\ Ready /\ IsUnit(a)
    /\ Update(Expr("pre_dec", 0, 1, EmptyPack), PreDecrement(a), PreDecrement(a))

\* a--
OpPostDecrement ==
    /\ Ready /\ IsUnit(a)
    /\ Update(Expr("post_dec", 0, 1, EmptyPack), PostDecrement(a)[1], PostDecrement(a)[2])

\* Unit<T, scale, target, Units of a> c(a)
OpConvert(scale, target) ==
    /\ Ready /\ IsUnit(a)
    /\ Eval(Expr("convert", scale, 1, target), ConvertUnit(scale, target, a))

\* a.as_free_unit()
OpAsFreeUnit ==
    /\ Ready /\ IsUnit(a)
    /\ Eval(Expr("as_free_unit", 0, 1, EmptyPack), as_free_unit(a))

\* constexpr auto a2 = <the last expression>; a2 is the next left operand
Load ==
    /\ depth < MaxDepth
    /\ op.name \in {"mul", "div", "add", "sub", "as_free_unit"}
    /\ r.kind \in {"unit", "scalar"}
    /\ a' = r
    /\ src' = Source(op.name, a)
    /\ depth' = depth + 1
    /\ op' = NoExpr
    /\ r' = None
    /\ UNCHANGED <<declared, b>>
    /\ UNCHANGED processVars

Next ==
    \/ \E u \in DeclSites : Declare(u)
    \/ a = None /\ declared = DeclSites /\ \E x \in Literals : ConstructA(x)
    \/ b = None /\ declared = DeclSites /\ \E x \in Literals : ConstructB(x)
    \/ OpMul
    \/ OpDiv
    \/ OpAdd
    \/ OpSub
    \/ Ready /\ \E pq \in PowArgs : OpPow(pq[1], pq[2])
    \/ Ready /\ \E t \in CastTargets : OpSemanticCast(t)
    \/ Ready /\ \E t \in CastTargets : OpUnitCast(t)
    \/ OpAssign
    \/ OpAddAssign
    \/ OpSubAssign
    \/ OpPreIncrement
    \/ OpPostIncrement
    \/ OpPreDecrement
    \/ OpPostDecrement
    \/ Ready /\ \E s \in 1..MaxScale, t \in CastTargets : OpConvert(s, t)
    \/ OpAsFreeUnit
    \/ Load

Spec == Init /\ [][Next]_vars

(***************************************************************************)
(* The type-level program: with every struct declared, it names two packs  *)
(* a and b and forms one type expression on them; r is the type (or the    *)
(* quantity) the expression denotes.                                       *)
(***************************************************************************)

\* The PowerTypes the packs are written with.  Meters and Feet have one id.
Terms ==
    { PowerType(Meters, 1, 1), PowerType(Meters, -1, 1), PowerType(Meters, 0, 1),
      PowerType(Seconds, 1, 1), PowerType(Seconds, -1, 2),
      PowerType(Feet, 1, 1) }

RECURSIVE PacksUpTo(_)
\* The packs of at most n Terms
PacksUpTo(n) ==
    IF n = 0 THEN {EmptyPack}
    ELSE LET shorter == PacksUpTo(n - 1)
         IN  shorter \cup {pack_cons(t, p) : t \in Terms, p \in shorter}

\* Pack<PowerType<Meters, n, d>> for every exponent n/d in lowest terms
PowerPacks ==
    { <<PowerType(Meters, e[1], e[2])>> :
        e \in { x \in (-MaxNum..MaxNum) \X (1..MaxDen) :
                  PowerTypeOK(PowerType(Meters, x[1], x[2])) } }

TypeInit ==
    /\ declared = DeclSites
    /\ a \in PacksUpTo(MaxLenA) \cup PowerPacks
    /\ b \in PacksUpTo(MaxLenB) \cup PowerPacks
    /\ op = NoExpr
    /\ r = None
    /\ src = Source("none", None)
    /\ depth = 0
    /\ NoProcess

\* using r = <expression on a and b>;
TypeEval(e, x) ==
    /\ op.name = "none"
    /\ op' = e
    /\ r' = x
    /\ UNCHANGED <<declared, a, b, src, depth>>
    /\ UNCHANGED processVars

TypeExpr(name) == Expr(name, 0, 1, EmptyPack)

\* sort_unit_pack_t<a>
SortUnitPack == TypeEval(TypeExpr("sort"), Type(SortTypes(a)))

\* clean_power_pack_t<sort_unit_pack_t<a>>
CleanSortedPack == TypeEval(TypeExpr("clean_sort"), Type(CleanPowerPack(SortTypes(a))))

\* cons_power_add_t<pack_head_t<b>, a> and cons_power_mult_t<pack_head_t<b>, a>
ConsPower(comb) ==
    /\ b # EmptyPack
    /\ TypeEval(TypeExpr("cons_" \o comb), Type(ConsPowerType(pack_head(b), a, comb)))

\* power_pack_add_t<a, b>
PowerPackAdd == TypeEval(TypeExpr("pack_add"), Type(power_pack_add(a, b)))

\* power_pack_mult_t<a, b>
PowerPackMult == TypeEval(TypeExpr("pack_mult"), Type(power_pack_mult(a, b)))

\* pack_remove_all_t<b, a>
RemoveAll == TypeEval(TypeExpr("remove_all"), pack_remove_all(b, a))

\* pack_concat_t<a, b>
Concat == TypeEval(TypeExpr("concat"), Type(PackConcat(a, b)))

\* negate_power_pack_t<a>
Negate == TypeEval(TypeExpr("negate"), Type(NegatePowerPack(a)))

\* Pack<add_unit_powers_t<pack_head_t<a>, pack_head_t<b>>> and
\* Pack<mult_unit_powers_t<pack_head_t<a>, pack_head_t<b>>>, the heads being
\* PowerTypes of one base unit
CombinePowers(comb) ==
    /\ a # EmptyPack /\ b # EmptyPack
    /\ same_unit_v(pack_head(a), pack_head(b))
    /\ TypeEval(TypeExpr("power_" \o comb),
                Type(<<PowerCombiner(comb, pack_head(a), pack_head(b))>>))

\* The quantity of value 1 in base scale pow is applied to:
\* Unit<double, MaxScale, b, a>(1. / MaxScale)
PowOperand == Unit(Rat(1, MaxScale), MaxScale, b, a)

\* pow<p, q>(Unit<double, MaxScale, b, a>(1. / MaxScale))
PowOfUnit(p, q) ==
    /\ IsUnit(PowOperand)
    /\ TypeEval(Expr("pow", p, q, EmptyPack), Pow(PowOperand, p, q))

TypeNext ==
    \/ SortUnitPack
    \/ CleanSortedPack
    \/ \E comb \in {"add", "mult"} : ConsPower(comb)
    \/ PowerPackAdd
    \/ PowerPackMult
    \/ RemoveAll
    \/ Concat
    \/ Negate
    \/ \E comb \in {"add", "mult"} : CombinePowers(comb)
    \/ op.name = "none" /\ \E pq \in PowArgs : PowOfUnit(pq[1], pq[2])

TypeSpec == TypeInit /\ [][TypeNext]_vars

(***************************************************************************)
(* The program that names one PowerType<Unit, num, den>; r is the pack     *)
(* holding it, or Rejected when a static_assert of PowerType fails.        *)
(***************************************************************************)

PowerTypeInit ==
    /\ declared = DeclSites
    /\ a = EmptyPack
    /\ b = EmptyPack
    /\ op = NoExpr
    /\ r = None
    /\ src = Source("none", None)
    /\ depth = 0
    /\ NoProcess

\* using r = Pack<PowerType<u, num, den>>;
InstantiatePowerType(u, num, den) ==
    TypeEval(Expr("power_type", num, den, <<u>>),
             IF PowerTypeOK(PowerType(u, num, den))
             THEN Type(<<PowerType(u, num, den)>>)
             ELSE Rejected)

PowerTypeNext ==
    \E u \in DeclSites, num \in -MaxNum..MaxNum, den \in -MaxDen..MaxDen :
        InstantiatePowerType(u, num, den)

PowerTypeSpec == PowerTypeInit /\ [][PowerTypeNext]_vars

(***************************************************************************)
(* TypeList.hpp: a TypeList is a sequence of types.  The program orders    *)
(* one list a of the classes of sortTest with DerivedSort; r is the        *)
(* ordered list.                                                           *)
(***************************************************************************)

\* struct Base {}; struct Derived : Base {}; struct MoreDerived : Derived {};
\* struct MoreDerived2 : Derived {}; struct MoreDerived3 : MoreDerived2 {};
Classes == {"Base", "Derived", "MoreDerived", "MoreDerived2", "MoreDerived3"}

\* The direct base class of each class ("" for none)
BaseOf ==
    [c \in Classes |->
        CASE c = "Base" -> ""
          [] c = "Derived" -> "Base"
          [] c = "MoreDerived" -> "Derived"
          [] c = "MoreDerived2" -> "Derived"
          [] c = "MoreDerived3" -> "MoreDerived2"]

RECURSIVE is_base_of_v(_, _)
\* std::is_base_of_v<B, D>: D is B or derives from B
is_base_of_v(B, D) ==
    \/ B = D
    \/ BaseOf[D] # "" /\ is_base_of_v(B, BaseOf[D])

\* DerivedSort<T, U>::Result
DerivedSort(T, U) ==
    IF is_base_of_v(U, T) THEN "less"
    ELSE IF is_base_of_v(T, U) THEN "greater"
    ELSE "equal"

\* push_t<list, T>: T in front of list
Push(list, T) == <<T>> \o list

RECURSIVE OrderedInsert(_, _)
\* OrderedInsert<list, T, DerivedSort>::Type; the empty sequence is EmptyType
OrderedInsert(list, T) ==
    IF list = << >> THEN <<T>>
    ELSE LET prev == OrderedInsert(Tail(list), Head(list))
         IN  IF DerivedSort(T, Head(prev)) = "greater"
             THEN Push(OrderedInsert(Tail(prev), T), Head(prev))
             ELSE Push(prev, T)

\* order_t<list, DerivedSort>
order_t(list) == OrderedInsert(Tail(list), Head(list))

\* The value of a TypeList expression
List(l) == [kind |-> "list", list |-> l]

RECURSIVE ListsUpTo(_)
\* The TypeLists of at most n classes; a TypeList holds at least one
ListsUpTo(n) ==
    IF n = 1 THEN {<<c>> : c \in Classes}
    ELSE LET shorter == ListsUpTo(n - 1)
         IN  shorter \cup {Push(l, c) : c \in Classes, l \in shorter}

OrderInit ==
    /\ declared = {}
    /\ a \in ListsUpTo(MaxListLen)
    /\ b = EmptyPack
    /\ op = NoExpr
    /\ r = None
    /\ src = Source("none", None)
    /\ depth = 0
    /\ NoProcess

\* using r = order_t<a, DerivedSort>;
OrderDerived == TypeEval(TypeExpr("order"), List(order_t(a)))

OrderNext == OrderDerived

OrderSpec == OrderInit /\ [][OrderNext]_vars

(***************************************************************************)
(* Singleton.hpp: a process instantiates Singleton with some policies, its *)
(* threads call get(), and at exit the functions registered with           *)
(* std::atexit run, last registered first.  Each thread is at one line of  *)
(* get() or of initializeSingleton().  Reading a freed object, writing     *)
(* outside an allocation and freeing twice are undefined: the heap is      *)
(* then corrupt or not, and a later call of the allocator on a corrupt     *)
(* heap may abort the process.  Allocation itself never fails.             *)
(***************************************************************************)

\* The template arguments of Singleton<T, deathPolicy, createPolicy,
\* destructionPolicy, coarseLockingPolicy>, createPolicy being
\* FreeStoreCreatePolicy
Policies(death, destruction, lock) ==
    [death |-> death, destruction |-> destruction, lock |-> lock]

StandardDestructionPolicy == [kind |-> "Standard", longevity |-> 0]

LongevityDestructionPolicy(longevity) == [kind |-> "Longevity", longevity |-> longevity]

\* Singleton<T> with its default arguments
DefaultSingleton == Policies("ErrorDeadRefPolicy", StandardDestructionPolicy, "SingletonNoLock")

PheonixSingleton_t == Policies("ReviveDeadRefPolicy", StandardDestructionPolicy, "SingletonNoLock")

MTSingleton_t == Policies("ErrorDeadRefPolicy", StandardDestructionPolicy, "SingletonLockGuard")

MTPheonixSingleton_t ==
    Policies("ReviveDeadRefPolicy", StandardDestructionPolicy, "SingletonLockGuard")

LifetimeSingleton_t(longevity) ==
    Policies("ReviveDeadRefPolicy", LongevityDestructionPolicy(longevity), "SingletonNoLock")

\* An object made by FreeStoreCreatePolicy::create for Singleton s, whether
\* it was deleted, and the phase it was made in
Object(s, freed, made) == [of |-> s, freed |-> freed, made |-> made]

\* struct SingletonLife { destroyer, longevity }, the destroyer being
\* onDestroy of Singleton s
SingletonLife(s, longevity) == [destroyer |-> s, longevity |-> longevity]

\* The value of a slot that was allocated and never written
Garbage == [destroyer |-> 0, longevity |-> 0]

\* How a get() ended: with a reference to an object, which may be deleted
\* already, or with an exception
Returned(object) == [kind |-> "reference", object |-> object, dangling |-> objects[object].freed]

Threw == [kind |-> "DeadReferenceException", object |-> 0, dangling |-> FALSE]

NotCalled == [kind |-> "none", object |-> 0, dangling |-> FALSE]

Threads == DOMAIN pc

Singletons == DOMAIN policy

Alive == phase \in {"running", "exiting"}

AllIdle == \A t \in Threads : pc[t] = "idle"

\* posForLongevity: the first index whose element has a longevity <=
\* longevity, lifetimeElements if there is none (indices count from 0)
posForLongevity(slots, elements, longevity) ==
    LET found == {i \in 0..elements - 1 : slots[i + 1].longevity <= longevity}
    IN  IF found = {} THEN elements
        ELSE CHOOSE i \in found : \A j \in found : i <= j

\* The indices shiftLifetimeElements(posToClear) reads or writes:
\* lifetimeManager[i + 1] = lifetimeManager[i] for i from lifetimeElements
\* down to posToClear
ShiftTouches(elements, posToClear) ==
    IF posToClear < elements THEN posToClear..elements + 1 ELSE {}

\* shiftLifetimeElements(posToClear) on an array of elements + 1 slots: the
\* slots of the array afterwards.  The first iteration copies the slot that
\* was never written to the index elements + 1, outside the array.
shiftLifetimeElements(slots, elements, posToClear) ==
    IF posToClear < elements
    THEN [i \in 1..Len(slots) |->
            IF i - 1 > posToClear THEN slots[i - 1] ELSE slots[i]]
    ELSE slots

\* safeAddManagerToArray without its ++lifetimeElements and atexit: the
\* slots afterwards
safeAddManagerToArray(slots, elements, manager) ==
    LET pos == posForLongevity(slots, elements, manager.longevity)
    IN  [shiftLifetimeElements(slots, elements, pos) EXCEPT ![pos + 1] = manager]

\* The indices safeAddManagerToArray reads or writes
AddTouches(slots, elements, manager) ==
    LET pos == posForLongevity(slots, elements, manager.longevity)
    IN  (0..pos) \cup ShiftTouches(elements, pos)

\* realloc(lifetimeManager, sizeof(SingletonLife*) * (lifetimeElements + 1)):
\* the slots afterwards, the new one never written
Grown(array, elements) ==
    IF array.state = "live" THEN Append(array.slots, Garbage) ELSE <<Garbage>>

\* What an undefined use of the heap leaves behind
UndefinedOutcomes == {heap, "corrupt"}

\* Singleton::onDestroy of Singleton s: isLive = false;
\* createPolicy<T>::free(instance); instance keeps its value.  Deleting an
\* object a second time is undefined.
onDestroy(s, heapAfter) ==
    /\ isLive' = [isLive EXCEPT ![s] = FALSE]
    /\ objects' = [objects EXCEPT ![instance[s]].freed = TRUE]
    /\ heapAfter \in (IF objects[instance[s]].freed THEN UndefinedOutcomes ELSE {heap})
    /\ heap' = heapAfter
    /\ called' = Append(called, s)

\* A thread calls get() of Singleton s.
Call(t, s) ==
    /\ Alive
    /\ pc[t] = "idle"
    /\ pc' = [pc EXCEPT ![t] = "get"]
    /\ callee' = [callee EXCEPT ![t] = s]
    /\ UNCHANGED <<policy, instance, isLive, handles, objects, mu, ret, atexitStack,
                   lifetimeManager, lifetimeElements, lastSchedule, heap, called, phase>>
    /\ UNCHANGED unitVars

\* get: if (!instance)
TestInstance(t) ==
    /\ Alive
    /\ pc[t] = "get"
    /\ pc' = [pc EXCEPT ![t] = IF instance[callee[t]] = 0 THEN "lock" ELSE "return"]
    /\ UNCHANGED <<policy, instance, isLive, handles, objects, mu, callee, ret,
                   atexitStack, lifetimeManager, lifetimeElements, lastSchedule, heap,
                   called, phase>>
    /\ UNCHANGED unitVars

\* get: auto lk = coarseLockingPolicy<T>::lockSingleton();
LockSingleton(t) ==
    /\ Alive
    /\ pc[t] = "lock"
    /\ IF policy[callee[t]].lock = "SingletonLockGuard"
       THEN /\ mu[callee[t]] = 0
            /\ mu' = [mu EXCEPT ![callee[t]] = t]
       ELSE UNCHANGED mu
    /\ pc' = [pc EXCEPT ![t] = "initialize"]
    /\ UNCHANGED <<policy, instance, isLive, handles, objects, callee, ret,
                   atexitStack, lifetimeManager, lifetimeElements, lastSchedule, heap,
                   called, phase>>
    /\ UNCHANGED unitVars

\* initializeSingleton: if (!instance) { if (!isLive) deathPolicy::onDeadReference();
\* an exception leaves get() and destroys lk
InitializeSingleton(t) ==
    LET s == callee[t]
        throws == /\ instance[s] = 0
                  /\ ~isLive[s]
                  /\ policy[s].death = "ErrorDeadRefPolicy"
    IN  /\ Alive
        /\ pc[t] = "initialize"
        /\ pc' = [pc EXCEPT ![t] = IF instance[s] # 0 THEN "unlock"
                                   ELSE IF throws THEN "idle"
                                   ELSE "create"]
        /\ ret' = IF throws THEN [ret EXCEPT ![t] = Threw] ELSE ret
        /\ mu' = IF throws /\ mu[s] = t THEN [mu EXCEPT ![s] = 0] ELSE mu
        /\ UNCHANGED <<policy, instance, isLive, handles, objects, callee, atexitStack,
                       lifetimeManager, lifetimeElements, lastSchedule, heap, called,
                       phase>>
        /\ UNCHANGED unitVars

\* initializeSingleton: instance = createPolicy<T>::create();
Create(t) ==
    /\ Alive
    /\ pc[t] = "create"
    /\ objects' = Append(objects, Object(callee[t], FALSE, phase))
    /\ instance' = [instance EXCEPT ![callee[t]] = Len(objects) + 1]
    /\ pc' = [pc EXCEPT ![t] = "schedule"]
    /\ UNCHANGED <<policy, isLive, handles, mu, callee, ret, atexitStack,
                   lifetimeManager, lifetimeElements, lastSchedule, heap, called, phase>>
    /\ UNCHANGED unitVars

\* initializeSingleton: destructionPolicy::scheduleDestruction(&onDestroy);
\* with StandardDestructionPolicy: std::atexit(dtor)
ScheduleStandard(t) ==
    /\ Alive
    /\ pc[t] = "schedule"
    /\ policy[callee[t]].destruction.kind = "Standard"
    /\ atexitStack' = <<[fn |-> "onDestroy", s |-> callee[t]]>> \o atexitStack
    /\ pc' = [pc EXCEPT ![t] = "live"]
    /\ UNCHANGED <<policy, instance, isLive, handles, objects, mu, callee, ret,
                   lifetimeManager, lifetimeElements, lastSchedule, heap, called, phase>>
    /\ UNCHANGED unitVars

\* initializeSingleton: destructionPolicy::scheduleDestruction(&onDestroy);
\* with LongevityDestructionPolicy<longevity>: _scheduleDestruction reallocs
\* the array to lifetimeElements + 1 slots and safeAddManagerToArray inserts
\* the manager and registers popLifetimeArray
ScheduleLongevity(t, heapAfter) ==
    LET s == callee[t]
        manager == SingletonLife(s, policy[s].destruction.longevity)
        afterFree == lifetimeManager.state = "freed"
        slots == Grown(lifetimeManager, lifetimeElements)
        indices == AddTouches(slots, lifetimeElements, manager)
        undefined == afterFree \/ \E i \in indices : i > lifetimeElements
    IN  /\ Alive
        /\ pc[t] = "schedule"
        /\ policy[s].destruction.kind = "Longevity"
        /\ lifetimeManager' =
              Array("live", safeAddManagerToArray(slots, lifetimeElements, manager))
        /\ lifetimeElements' = lifetimeElements + 1
        /\ lastSchedule' = Touched(indices, lifetimeElements, afterFree)
        /\ heapAfter \in (IF undefined THEN UndefinedOutcomes ELSE {heap})
        /\ heap' = heapAfter
        /\ atexitStack' = <<[fn |-> "popLifetimeArray", s |-> 0]>> \o atexitStack
        /\ pc' = [pc EXCEPT ![t] = "live"]
        /\ UNCHANGED <<policy, instance, isLive, handles, objects, mu, callee, ret,
                       called, phase>>
        /\ UNCHANGED unitVars

\* initializeSingleton: isLive = true;
SetLive(t) ==
    /\ Alive
    /\ pc[t] = "live"
    /\ isLive' = [isLive EXCEPT ![callee[t]] = TRUE]
    /\ pc' = [pc EXCEPT ![t] = "unlock"]
    /\ UNCHANGED <<policy, instance, handles, objects, mu, callee, ret, atexitStack,
                   lifetimeManager, lifetimeElements, lastSchedule, heap, called, phase>>
    /\ UNCHANGED unitVars

\* get: the end of the block destroys lk
Unlock(t) ==
    /\ Alive
    /\ pc[t] = "unlock"
    /\ mu' = IF mu[callee[t]] = t THEN [mu EXCEPT ![callee[t]] = 0] ELSE mu
    /\ pc' = [pc EXCEPT ![t] = "return"]
    /\ UNCHANGED <<policy, instance, isLive, handles, objects, callee, ret, atexitStack,
                   lifetimeManager, lifetimeElements, lastSchedule, heap, called, phase>>
    /\ UNCHANGED unitVars

\* get: return *instance;
Return(t) ==
    /\ Alive
    /\ pc[t] = "return"
    /\ ret' = [ret EXCEPT ![t] = Returned(instance[callee[t]])]
    /\ pc' = [pc EXCEPT ![t] = "idle"]
    /\ UNCHANGED <<policy, instance, isLive, handles, objects, mu, callee, atexitStack,
                   lifetimeManager, lifetimeElements, lastSchedule, heap, called, phase>>
    /\ UNCHANGED unitVars

\* Singleton(): isLive = true;
ConstructHandle(s) ==
    /\ phase = "running"
    /\ handles[s] = 0
    /\ handles' = [handles EXCEPT ![s] = 1]
    /\ isLive' = [isLive EXCEPT ![s] = TRUE]
    /\ UNCHANGED <<policy, instance, objects, mu, pc, callee, ret, atexitStack,
                   lifetimeManager, lifetimeElements, lastSchedule, heap, called, phase>>
    /\ UNCHANGED unitVars

\* ~Singleton(): isLive = false;
DestroyHandle(s) ==
    /\ phase = "running"
    /\ handles[s] = 1
    /\ handles' = [handles EXCEPT ![s] = 0]
    /\ isLive' = [isLive EXCEPT ![s] = FALSE]
    /\ UNCHANGED <<policy, instance, objects, mu, pc, callee, ret, atexitStack,
                   lifetimeManager, lifetimeElements, lastSchedule, heap, called, phase>>
    /\ UNCHANGED unitVars

\* main returns, or exit is called, with no get() in progress.
Exit ==
    /\ phase = "running"
    /\ AllIdle
    /\ phase' = "exiting"
    /\ UNCHANGED <<policy, instance, isLive, handles, objects, mu, pc, callee, ret,
                   atexitStack, lifetimeManager, lifetimeElements, lastSchedule, heap,
                   called>>
    /\ UNCHANGED unitVars

\* exit calls the function registered last: Singleton::onDestroy
RunOnDestroy(heapAfter) ==
    /\ phase = "exiting"
    /\ AllIdle
    /\ atexitStack # << >>
    /\ Head(atexitStack).fn = "onDestroy"
    /\ atexitStack' = Tail(atexitStack)
    /\ onDestroy(Head(atexitStack).s, heapAfter)
    /\ UNCHANGED <<policy, instance, handles, mu, pc, callee, ret, lifetimeManager,
                   lifetimeElements, lastSchedule, phase>>
    /\ UNCHANGED unitVars

\* exit calls the function registered last: popLifetimeArray takes the last
\* element, reallocs the array one shorter or frees it (the pointer is kept),
\* and calls the destroyer
popLifetimeArray(heapAfter) ==
    LET last == lifetimeManager.slots[lifetimeElements]
    IN  /\ phase = "exiting"
        /\ AllIdle
        /\ atexitStack # << >>
        /\ Head(atexitStack).fn = "popLifetimeArray"
        /\ atexitStack' = Tail(atexitStack)
        /\ lifetimeElements' = lifetimeElements - 1
        /\ lifetimeManager' =
              IF lifetimeElements - 1 > 0
              THEN Array("live", SubSeq(lifetimeManager.slots, 1, lifetimeElements - 1))
              ELSE Array("freed", << >>)
        /\ onDestroy(last.destroyer, heapAfter)
        /\ UNCHANGED <<policy, instance, handles, mu, pc, callee, ret, lastSchedule,
                       phase>>
        /\ UNCHANGED unitVars

\* malloc, realloc, free, new or delete finds the heap corrupt and aborts
\* the process: a thread is about to create or to schedule with the
\* tracker, or exit is about to call a destroyer.
Abort ==
    /\ Alive
    /\ heap = "corrupt"
    /\ \/ \E t \in Threads : pc[t] = "create"
       \/ \E t \in Threads :
             pc[t] = "schedule" /\ policy[callee[t]].destruction.kind = "Longevity"
       \/ phase = "exiting" /\ AllIdle /\ atexitStack # << >>
    /\ phase' = "aborted"
    /\ UNCHANGED <<policy, instance, isLive, handles, objects, mu, pc, callee, ret,
                   atexitStack, lifetimeManager, lifetimeElements, lastSchedule, heap,
                   called>>
    /\ UNCHANGED unitVars

\* exit has called every registered function.
Finish ==
    /\ phase = "exiting"
    /\ AllIdle
    /\ atexitStack = << >>
    /\ phase' = "exited"
    /\ UNCHANGED <<policy, instance, isLive, handles, objects, mu, pc, callee, ret,
                   atexitStack, lifetimeManager, lifetimeElements, lastSchedule, heap,
                   called>>
    /\ UNCHANGED unitVars

\* A process of the given Singleton instantiations and number of threads
Process(instantiations, threads) ==
    /\ policy = instantiations
    /\ instance = [s \in DOMAIN instantiations |-> 0]
    /\ isLive = [s \in DOMAIN instantiations |-> FALSE]
    /\ handles = [s \in DOMAIN instantiations |-> 0]
    /\ objects = << >>
    /\ mu = [s \in DOMAIN instantiations |-> 0]
    /\ pc = [t \in 1..threads |-> "idle"]
    /\ callee = [t \in 1..threads |-> 1]
    /\ ret = [t \in 1..threads |-> NotCalled]
    /\ atexitStack = << >>
    /\ lifetimeManager = Array("null", << >>)
    /\ lifetimeElements = 0
    /\ lastSchedule = Touched({}, 0, FALSE)
    /\ heap = "ok"
    /\ called = << >>
    /\ phase = "running"

NoUnits ==
    /\ declared = {}
    /\ a = None
    /\ b = None
    /\ op = NoExpr
    /\ r = None
    /\ src = Source("none", None)
    /\ depth = 0

\* One Singleton with StandardDestructionPolicy, of either dead reference
\* policy and either locking policy, and NumThreads threads
SingletonInit ==
    /\ NoUnits
    /\ \E p \in {DefaultSingleton, PheonixSingleton_t, MTSingleton_t, MTPheonixSingleton_t} :
          Process(<<p>>, NumThreads)

SingletonNext ==
    \/ \E t \in Threads, s \in Singletons : Call(t, s)
    \/ \E t \in Threads : TestInstance(t)
    \/ \E t \in Threads : LockSingleton(t)
    \/ \E t \in Threads : InitializeSingleton(t)
    \/ \E t \in Threads : Create(t)
    \/ \E t \in Threads : ScheduleStandard(t)
    \/ \E t \in Threads : SetLive(t)
    \/ \E t \in Threads : Unlock(t)
    \/ \E t \in Threads : Return(t)
    \/ \E s \in Singletons : ConstructHandle(s)
    \/ \E s \in Singletons : DestroyHandle(s)
    \/ Exit
    \/ \E h \in {"ok", "corrupt"} : RunOnDestroy(h)
    \/ Finish

SingletonSpec == SingletonInit /\ [][SingletonNext]_vars

\* NumSingletons instantiations of LifetimeSingleton_t, of every longevity
\* in 1..MaxLongevity, and one thread
LongevityInit ==
    /\ NoUnits
    /\ \E l \in [1..NumSingletons -> 1..MaxLongevity] :
          Process([s \in 1..NumSingletons |-> LifetimeSingleton_t(l[s])], 1)

LongevityNext ==
    \/ \E t \in Threads, s \in Singletons : Call(t, s)
    \/ \E t \in Threads : TestInstance(t)
    \/ \E t \in Threads : LockSingleton(t)
    \/ \E t \in Threads : InitializeSingleton(t)
    \/ \E t \in Threads : Create(t)
    \/ \E t \in Threads, h \in {"ok", "corrupt"} : ScheduleLongevity(t, h)
    \/ \E t \in Threads : SetLive(t)
    \/ \E t \in Threads : Unlock(t)
    \/ \E t \in Threads : Return(t)
    \/ Exit
    \/ \E h \in {"ok", "corrupt"} : popLifetimeArray(h)
    \/ Abort
    \/ Finish

LongevitySpec == LongevityInit /\ [][LongevityNext]_vars

(***************************************************************************)
(* Properties.                                                             *)
(***************************************************************************)

\* The pack <<PowerType<u, 1, 1>>>
P1(u) == <<PowerType(u, 1, 1)>>

\* The base units a pack names
UnitsOf(p) == {p[i].unit : i \in 1..Len(p)}

\* The exponent of base unit u in pack p as a rational, 0 when p does not
\* name u
ExpOf(p, u) ==
    IF u \in UnitsOf(p)
    THEN LET i == CHOOSE k \in 1..Len(p) : p[k].unit = u
         IN  Rat(p[i].num, p[i].den)
    ELSE RatInt(0)

SummedExp(pa, pb, u) == RatAdd(ExpOf(pa, u), ExpOf(pb, u))

\* The ids of the pack's terms ascend strictly
StrictlyAscending(p) ==
    \A i, j \in 1..Len(p) : i < j => IdLess(PowerId(p[i]), PowerId(p[j]))

NoZeroExponent(p) == \A i \in 1..Len(p) : p[i].num # 0

\* A canonical pack: sorted by id, one term per id, no zero exponent, every
\* exponent in lowest terms with a positive denominator
Canonical(p) ==
    /\ StrictlyAscending(p)
    /\ NoZeroExponent(p)
    /\ \A i \in 1..Len(p) : Rat(p[i].num, p[i].den) = [n |-> p[i].num, d |-> p[i].den]

\* res holds exactly the units whose summed exponent in pa and pb is not
\* zero, each with that summed exponent, in ascending id order
IsCanonicalSum(res, pa, pb) ==
    /\ StrictlyAscending(res)
    /\ UnitsOf(res) = {u \in UnitsOf(pa) \cup UnitsOf(pb) : SummedExp(pa, pb, u).n # 0}
    /\ \A i \in 1..Len(res) :
          [n |-> res[i].num, d |-> res[i].den] = SummedExp(pa, pb, res[i].unit)

\* The last expression was x + y or x - y
AddOrSub == op.name \in {"add", "sub"}

\* C1: a + b and a - b on two Units are accepted exactly when the dimension
\* packs are identical and the semantic packs are equal or one of them is
\* NoSemanticType; every other pair is rejected and has no value.
C1_AddSubAcceptedOnlyIfCompatible ==
    (AddOrSub /\ IsUnit(a) /\ IsUnit(b)) =>
        LET compatible == /\ a.dim = b.dim
                          /\ (a.sem = b.sem \/ a.sem = NoSemanticType
                                \/ b.sem = NoSemanticType)
        IN  /\ compatible => IsUnit(r)
            /\ ~compatible => r = Rejected

\* Length + Width over meters is rejected.
C1_Witness ==
    /\ op.name = "add"
    /\ a.sem = P1(Length) /\ b.sem = P1(Width)
    /\ a.dim = P1(Meters) /\ b.dim = P1(Meters)
    /\ r = Rejected

\* The dimension pack of an operand of + and -: a scalar that a product or
\* quotient collapsed to has the empty dimension pack
DimOf(x) == IF IsUnit(x) THEN x.dim ELSE EmptyPack

\* C2: no addition or subtraction combines two quantities whose dimension
\* packs differ, a dimensionless product or quotient (collapsed to a
\* scalar) with a Unit of non-empty dimension pack included.
C2_NoMixedDimensionAddition ==
    (/\ AddOrSub
     /\ IsUnit(a) \/ (/\ IsScalar(a) /\ src.name \in {"mul", "div"}
                      /\ IsUnit(src.a))
     /\ IsUnit(b)
     /\ DimOf(a) # DimOf(b)) => r = Rejected

\* C3: the packs of a product a * b of Units with canonical packs hold
\* exactly the units whose summed exponent is not zero, with that exponent,
\* in ascending id order; so do those of (a * b) * d for every literal d.
\* Length * Width * Depth over meters is meters^3 with the semantic pack
\* [Length, Width, Depth]; Length * Length * Width is meters^3 with another
\* semantic pack.
C3_ProductPacks ==
    (/\ op.name = "mul" /\ IsUnit(a) /\ IsUnit(b) /\ IsUnit(r)
     /\ Canonical(a.dim) /\ Canonical(a.sem)
     /\ Canonical(b.dim) /\ Canonical(b.sem)) =>
        /\ IsCanonicalSum(r.dim, a.dim, b.dim)
        /\ IsCanonicalSum(r.sem, a.sem, b.sem)
        /\ \A d \in Literals :
              (IsUnit(d) /\ IsUnit(Mul(r, d))) =>
                  /\ IsCanonicalSum(Mul(r, d).dim, r.dim, d.dim)
                  /\ IsCanonicalSum(Mul(r, d).sem, r.sem, d.sem)
        /\ \A d \in Literals :
              (/\ a.dim = P1(Meters) /\ b.dim = P1(Meters) /\ d.dim = P1(Meters)
               /\ a.sem = P1(Length) /\ IsUnit(d)) =>
                  /\ (b.sem = P1(Width) /\ d.sem = P1(Depth)) =>
                        /\ Mul(r, d).dim = <<PowerType(Meters, 3, 1)>>
                        /\ Mul(r, d).sem = <<PowerType(Length, 1, 1),
                                             PowerType(Width, 1, 1),
                                             PowerType(Depth, 1, 1)>>
                  /\ (b.sem = P1(Length) /\ d.sem = P1(Width)) =>
                        /\ Mul(r, d).dim = <<PowerType(Meters, 3, 1)>>
                        /\ Mul(r, d).sem = <<PowerType(Length, 2, 1),
                                             PowerType(Width, 1, 1)>>

\* Length * Width is evaluated, and times a Depth it is the volume.
C3_Witness ==
    /\ op.name = "mul" /\ IsUnit(r)
    /\ a.sem = P1(Length) /\ b.sem = P1(Width)
    /\ a.dim = P1(Meters) /\ b.dim = P1(Meters)
    /\ r.dim = <<PowerType(Meters, 2, 1)>>
    /\ \E d \in Literals :
          /\ d.sem = P1(Depth) /\ d.dim = P1(Meters)
          /\ Mul(r, d).dim = <<PowerType(Meters, 3, 1)>>
          /\ Mul(r, d).sem = <<PowerType(Length, 1, 1), PowerType(Width, 1, 1),
                               PowerType(Depth, 1, 1)>>

\* The last expression was a product of two Units that is a Unit
UnitProduct == op.name = "mul" /\ IsUnit(a) /\ IsUnit(b) /\ IsUnit(r)

\* C4 as claimed: the scale of a * b is the product of the operand scales.
C4_ScaleIsProductOfScales == UnitProduct => r.scale = a.scale * b.scale

\* C4 as amended: the scale of a * b is the square of the left operand's
\* scale, whatever the right operand's scale; it is the product of the
\* operand scales only when the scales are equal.
C4_ScaleIsLeftScaleSquared ==
    UnitProduct =>
        /\ r.scale = a.scale * a.scale
        /\ (r.scale = a.scale * b.scale) <=> (a.scale = b.scale)

\* A product of Units of different scales.
C4_Witness == UnitProduct /\ a.scale = 2 /\ b.scale = 1 /\ r.scale = 4

\* C5: (a * b) / b has the packs of a and the value of a in base scale.
C5_MulThenDivIsIdentity ==
    (/\ op.name = "div" /\ src.name = "mul"
     /\ IsUnit(src.a) /\ IsUnit(b)) =>
        /\ IsUnit(r)
        /\ r.dim = src.a.dim
        /\ r.sem = src.a.sem
        /\ get_in_base_scale(r) = get_in_base_scale(src.a)

\* C6: the reciprocal T{1} / b has b's packs with every exponent negated
\* and denotes 1 / (b.val * scale) in base scale, so that a / b is a times
\* the reciprocal of b.
C6_ReciprocalInvertsScale ==
    (/\ op.name = "div" /\ IsUnit(b)
     /\ IsScalar(a) /\ a.val = RatInt(1)) =>
        /\ IsUnit(r)
        /\ \A i \in 1..Len(b.dim) :
              r.dim[i] = PowerType(b.dim[i].unit, -b.dim[i].num, b.dim[i].den)
        /\ \A i \in 1..Len(b.sem) :
              r.sem[i] = PowerType(b.sem[i].unit, -b.sem[i].num, b.sem[i].den)
        /\ get_in_base_scale(r) = RatDiv(RatInt(1), get_in_base_scale(b))

\* The right factor of the product of two Units the last expression formed:
\* b for a * b, T{1} / b for a / b
RightFactor == IF op.name = "div" THEN DivScalarUnit(RatInt(1), b) ELSE b

\* Distinct base units of the two packs have distinct ids
DistinctIds(pa, pb) ==
    \A u, v \in UnitsOf(pa) \cup UnitsOf(pb) : u # v => UnitId(u) # UnitId(v)

\* C7: the product of two Units (a * b, and a * (T{1} / b) formed by a / b)
\* is a scalar exactly when every summed exponent of the dimension packs is
\* zero, whatever the semantic pack; otherwise it is a Unit with the derived
\* packs (the program is ill-formed only when two units share an id).
C7_ScalarIffDimensionless ==
    (op.name \in {"mul", "div"} /\ IsUnit(a) /\ IsUnit(b)) =>
        LET f == RightFactor
            dimensionless ==
                \A u \in UnitsOf(a.dim) \cup UnitsOf(f.dim) :
                    SummedExp(a.dim, f.dim, u).n = 0
        IN  /\ IsScalar(r) <=> dimensionless
            /\ (~dimensionless /\ r # Rejected) =>
                  /\ IsUnit(r)
                  /\ IsCanonicalSum(r.dim, a.dim, f.dim)
                  /\ IsCanonicalSum(r.sem, a.sem, f.sem)
            /\ (/\ ~dimensionless
                /\ DistinctIds(a.dim, f.dim)
                /\ DistinctIds(a.sem, f.sem)) => IsUnit(r)

\* Length over meters divided by Width over meters: the dimension pack of
\* the product is empty, its semantic pack [Length, Width^-1] is not.
C7_Witness ==
    /\ op.name = "div" /\ IsScalar(r)
    /\ a.sem = P1(Length) /\ b.sem = P1(Width)
    /\ a.dim = P1(Meters) /\ b.dim = P1(Meters)
    /\ CleanPowerPack(SortTypes(power_pack_add(a.sem, RightFactor.sem)))
         = <<PowerType(Length, 1, 1), PowerType(Width, -1, 1)>>

\* C8: any two distinct structs declared with SEMANTIC_UNIT_TYPE have
\* distinct ids.
C8_DeclaredIdsDistinct ==
    \A u, v \in declared : u # v => UnitId(u) # UnitId(v)

\* The quantities the program holds
Held == {a, b, r, src.a}

\* C9: every Unit has packs strictly ascending by id, hence one term per id,
\* and a cast to a target pack that is not strictly ascending is rejected at
\* the construction of the Unit.
C9_PacksStrictlyAscending ==
    /\ \A x \in Held :
          IsUnit(x) => StrictlyAscending(x.sem) /\ StrictlyAscending(x.dim)
    /\ (op.name \in {"semantic_cast", "unit_cast"}
          /\ ~StrictlyAscending(op.target)) => r = Rejected

\* A Unit whose dimension pack would hold Meters and Feet, of equal ids, is
\* rejected.
C9_Witness ==
    /\ op.name = "unit_cast"
    /\ op.target = <<PowerType(Meters, 1, 1), PowerType(Feet, 1, 1)>>
    /\ r = Rejected

\* C10: no Unit holds a term with a zero exponent numerator.
C10_NoZeroExponents ==
    \A x \in Held :
        IsUnit(x) => NoZeroExponent(x.sem) /\ NoZeroExponent(x.dim)

(***************************************************************************)
(* Properties of the type-level functions, on TypeSpec.                    *)
(***************************************************************************)

\* The number of occurrences of term x in pack p
Count(x, p) == Cardinality({i \in 1..Len(p) : p[i] = x})

TermsOf(p) == {p[i] : i \in 1..Len(p)}

\* p and q hold the same terms, each as many times
SameTerms(p, q) ==
    /\ Len(p) = Len(q)
    /\ \A x \in TermsOf(p) \cup TermsOf(q) : Count(x, p) = Count(x, q)

\* No term of the pack is followed by a term of a smaller id
Ascending(p) ==
    \A i, j \in 1..Len(p) : i < j => ~IdLess(PowerId(p[j]), PowerId(p[i]))

PairwiseDistinctIds(p) ==
    \A i, j \in 1..Len(p) : i # j => PowerId(p[i]) # PowerId(p[j])

\* C11: sort_unit_pack_t returns a permutation of its input in ascending id
\* order; two packs that are permutations of the same terms with pairwise
\* distinct ids sort to one pack; the empty pack sorts to the empty pack.
C11_SortIsAscendingPermutation ==
    (op.name = "sort") =>
        /\ IsType(r)
        /\ SameTerms(r.pack, a)
        /\ Ascending(r.pack)
        /\ (a = EmptyPack) => (r.pack = EmptyPack)
        /\ (SameTerms(a, b) /\ PairwiseDistinctIds(a)) =>
              /\ StrictlyAscending(r.pack)
              /\ r.pack = SortTypes(b)

\* [Seconds, Meters] sorts to [Meters, Seconds], as [Meters, Seconds] does.
C11_Witness ==
    /\ op.name = "sort"
    /\ a = <<PowerType(Seconds, 1, 1), PowerType(Meters, 1, 1)>>
    /\ b = <<PowerType(Meters, 1, 1), PowerType(Seconds, 1, 1)>>
    /\ r.pack = b

\* C12: pruning the sorted pack gives the pack that sorting the pruned pack
\* gives, for every pack: unsorted, empty, of zero powers only, and with
\* several terms of one id.
C12_PruneSortCommute ==
    (op.name = "clean_sort") =>
        /\ IsType(r)
        /\ r.pack = SortTypes(CleanPowerPack(a))

\* An unsorted pack with a zero power and two terms of one id.
C12_Witness ==
    /\ op.name = "clean_sort"
    /\ a = <<PowerType(Seconds, 1, 1), PowerType(Meters, 0, 1), PowerType(Feet, 1, 1)>>
    /\ r.pack = <<PowerType(Feet, 1, 1), PowerType(Seconds, 1, 1)>>

\* The exponent of a PowerType as a rational
ExpRat(t) == Rat(t.num, t.den)

\* The exponent that add_unit_powers_t or mult_unit_powers_t is to give
Combined(comb, x, y) ==
    IF comb = "add" THEN RatAdd(ExpRat(x), ExpRat(y))
    ELSE RatMul(ExpRat(x), ExpRat(y))

\* The positions of pack p that hold a power of base unit u
PositionsOf(u, p) == {i \in 1..Len(p) : p[i].unit = u}

Least(S) == CHOOSE i \in S : \A j \in S : i <= j

\* res is pack p with PowerType t consed by comb: the first power of t's
\* base unit combined in its place, or t appended
IsCons(res, t, p, comb) ==
    LET at == PositionsOf(t.unit, p)
    IN  IF at = {} THEN res = Append(p, t)
        ELSE /\ Len(res) = Len(p)
             /\ \A i \in 1..Len(p) :
                   IF i = Least(at)
                   THEN /\ res[i].unit = t.unit
                        /\ [n |-> res[i].num, d |-> res[i].den]
                             = Combined(comb, t, p[i])
                   ELSE res[i] = p[i]

\* C13: cons of the head of b onto a, with add and with mult, replaces the
\* first term of the same base unit in its place by the combined power, a
\* zero power included, and keeps every other term; with no such term the
\* head of b is appended at the end; consed onto the empty pack it makes the
\* one-term pack.
C13_ConsReplacesOrAppends ==
    (op.name \in {"cons_add", "cons_mult"}) =>
        LET comb == IF op.name = "cons_add" THEN "add" ELSE "mult"
        IN  /\ IsType(r)
            /\ IsCons(r.pack, pack_head(b), a, comb)
            /\ (a = EmptyPack) => (r.pack = <<pack_head(b)>>)

\* Meters^1 consed onto [Seconds^1, Meters^-1, Meters^0]: the first power of
\* Meters becomes Meters^0 in its place and is kept.
C13_Witness ==
    /\ op.name = "cons_add"
    /\ pack_head(b) = PowerType(Meters, 1, 1)
    /\ a = <<PowerType(Seconds, 1, 1), PowerType(Meters, -1, 1), PowerType(Meters, 0, 1)>>
    /\ r.pack = <<PowerType(Seconds, 1, 1), PowerType(Meters, 0, 1), PowerType(Meters, 0, 1)>>

\* The pack holds at most one power of each base unit
OnePerUnit(p) == \A i, j \in 1..Len(p) : p[i].unit = p[j].unit => i = j

TermOf(p, u) == p[Least(PositionsOf(u, p))]

\* C14: the combination of packs a and b that hold at most one power per base
\* unit holds exactly one power for each base unit of a or b: the combined
\* power (the sum for power_pack_add_t, the product for power_pack_mult_t)
\* for a unit of both, the unchanged power for a unit of one; zero powers
\* stay and the terms are not sorted; combined with the empty pack a pack is
\* unchanged.
C14_CombineMergesSharedUnits ==
    (op.name \in {"pack_add", "pack_mult"} /\ OnePerUnit(a) /\ OnePerUnit(b)) =>
        LET comb == IF op.name = "pack_add" THEN "add" ELSE "mult"
        IN  /\ IsType(r)
            /\ OnePerUnit(r.pack)
            /\ UnitsOf(r.pack) = UnitsOf(a) \cup UnitsOf(b)
            /\ \A i \in 1..Len(r.pack) :
                  LET u == r.pack[i].unit
                  IN  IF u \in UnitsOf(a) /\ u \in UnitsOf(b)
                      THEN [n |-> r.pack[i].num, d |-> r.pack[i].den]
                             = Combined(comb, TermOf(a, u), TermOf(b, u))
                      ELSE IF u \in UnitsOf(a) THEN r.pack[i] = TermOf(a, u)
                      ELSE r.pack[i] = TermOf(b, u)
            /\ (a = EmptyPack) => (r.pack = b)
            /\ (b = EmptyPack) => (r.pack = a)

\* [Meters^-1, Seconds^1] added to [Seconds^1, Meters^1] is [Seconds^2,
\* Meters^0]: not sorted, the zero power kept.
C14_Witness ==
    /\ op.name = "pack_add"
    /\ a = <<PowerType(Meters, -1, 1), PowerType(Seconds, 1, 1)>>
    /\ b = <<PowerType(Seconds, 1, 1), PowerType(Meters, 1, 1)>>
    /\ r.pack = <<PowerType(Seconds, 2, 1), PowerType(Meters, 0, 1)>>

\* The number of occurrences of p[i] among the first i terms of p
CountUpTo(p, i) == Cardinality({j \in 1..i : p[j] = p[i]})

RECURSIVE TermsAt(_, _)
\* The terms of p at the positions S, in the order of p
TermsAt(p, S) ==
    IF S = {} THEN EmptyPack
    ELSE pack_cons(p[Least(S)], TermsAt(p, S \ {Least(S)}))

\* p without, for each term of q counted with multiplicity, the first
\* remaining occurrence of that term
Difference(p, q) ==
    TermsAt(p, {i \in 1..Len(p) : CountUpTo(p, i) > Count(p[i], q)})

\* C15: pack_remove_all_t<b, a> is the pack a without, for each term of b
\* counted with multiplicity, its first remaining occurrence, the other
\* terms in their order; removing [char, char, int, long] from [long, char,
\* char, char, double, int] leaves [char, double].
C15_RemoveAllIsMultisetDifference ==
    /\ (op.name = "remove_all") =>
          /\ IsType(r)
          /\ r.pack = Difference(a, b)
    /\ PackRemoveAll(<<"char", "char", "int", "long">>,
                     <<"long", "char", "char", "char", "double", "int">>)
         = <<"char", "double">>

\* C16 as claimed: the concatenation holds the terms of the second pack
\* followed by the terms of the first.
C16_ConcatIsSecondThenFirst ==
    (op.name = "concat") => (IsType(r) /\ r.pack = b \o a)

\* C16 as amended: pack_concat_t<a, b> holds the terms of a in order followed
\* by the terms of b in order, none merged; the empty pack is the identity on
\* either side.
C16_ConcatIsFirstThenSecond ==
    (op.name = "concat") =>
        /\ IsType(r)
        /\ Len(r.pack) = Len(a) + Len(b)
        /\ \A i \in 1..Len(a) : r.pack[i] = a[i]
        /\ \A i \in 1..Len(b) : r.pack[Len(a) + i] = b[i]
        /\ (a = EmptyPack) => (r.pack = b)
        /\ (b = EmptyPack) => (r.pack = a)

\* [Meters^1, Meters^0] and [Seconds^1, Meters^1] are concatenated; the two
\* powers Meters^1 are not merged.
C16_Witness ==
    /\ op.name = "concat"
    /\ a = <<PowerType(Meters, 1, 1), PowerType(Meters, 0, 1)>>
    /\ b = <<PowerType(Seconds, 1, 1), PowerType(Meters, 1, 1)>>
    /\ r.pack = <<PowerType(Meters, 1, 1), PowerType(Meters, 0, 1),
                  PowerType(Seconds, 1, 1), PowerType(Meters, 1, 1)>>

\* C17: negating the negated pack gives the pack; negate_power_pack_t flips
\* the sign of every numerator and keeps the base units, the denominators,
\* the order and the length.
C17_NegateIsInvolution ==
    (op.name = "negate") =>
        /\ IsType(r)
        /\ NegatePowerPack(r.pack) = a
        /\ Len(r.pack) = Len(a)
        /\ \A i \in 1..Len(a) :
              /\ r.pack[i].unit = a[i].unit
              /\ r.pack[i].num = 0 - a[i].num
              /\ r.pack[i].den = a[i].den

\* [Meters^1, Seconds^-1/2, Meters^0] negated.
C17_Witness ==
    /\ op.name = "negate"
    /\ a = <<PowerType(Meters, 1, 1), PowerType(Seconds, -1, 2), PowerType(Meters, 0, 1)>>
    /\ r.pack = <<PowerType(Meters, -1, 1), PowerType(Seconds, 1, 2), PowerType(Meters, 0, 1)>>

\* n/d is in lowest terms with a positive denominator (0 is 0/1)
LowestTerms(n, d) ==
    /\ d > 0
    /\ \A k \in 2..d : ~(n % k = 0 /\ d % k = 0)

\* C18: for exponents x = a/b and y = c/d in lowest terms with b, d > 0,
\* power_add gives (a*d + c*b)/(b*d) and power_mult gives (a*c)/(b*d), in
\* lowest terms with a positive denominator; 3/2 + 7/3 is 23/6, 3/2 + 7/2 is
\* 5/1, and a zero result is 0/1.
C18_PowerArithmeticReduced ==
    (op.name \in {"power_add", "power_mult"}) =>
        LET x == pack_head(a)
            y == pack_head(b)
            t == pack_head(r.pack)
            num == IF op.name = "power_add" THEN x.num * y.den + y.num * x.den
                   ELSE x.num * y.num
            den == x.den * y.den
        IN  /\ IsType(r)
            /\ t.unit = x.unit
            /\ LowestTerms(t.num, t.den)
            /\ t.num * den = num * t.den
            /\ (num = 0) => (t.num = 0 /\ t.den = 1)
            /\ power_add(PowerType(Meters, 3, 2), PowerType(Meters, 7, 3))
                 = PowerType(Meters, 23, 6)
            /\ power_add(PowerType(Meters, 3, 2), PowerType(Meters, 7, 2))
                 = PowerType(Meters, 5, 1)

\* -3/2 + 1/3 is -7/6: the numerator is negative, the denominator positive.
C18_Witness ==
    /\ op.name = "power_add"
    /\ a = <<PowerType(Meters, -3, 2)>>
    /\ b = <<PowerType(Meters, 1, 3)>>
    /\ r.pack = <<PowerType(Meters, -7, 6)>>

\* res holds, in the order of p, each power of p with its exponent times
\* powerNum / powerDen, in lowest terms with a positive denominator
IsRaised(res, p, powerNum, powerDen) ==
    /\ Len(res) = Len(p)
    /\ \A i \in 1..Len(p) :
          /\ res[i].unit = p[i].unit
          /\ LowestTerms(res[i].num, res[i].den)
          /\ res[i].num * (p[i].den * powerDen) = (p[i].num * powerNum) * res[i].den

\* C19: pow<p, q> of the Unit with semantic pack b and dimension pack a is a
\* Unit of scale 1 whose packs hold, in the same order, each power with its
\* exponent times p/q in lowest terms with a positive denominator, for q of
\* either sign; [Meters^1, Seconds^-2] raised to 2/3 is [Meters^(2/3),
\* Seconds^(-4/3)].
C19_PowRaisesEveryExponent ==
    (op.name = "pow") =>
        /\ IsUnit(r)
        /\ r.scale = 1
        /\ IsRaised(r.sem, b, op.p, op.q)
        /\ IsRaised(r.dim, a, op.p, op.q)
        /\ RaisePowerPack(<<PowerType(Meters, 1, 1), PowerType(Seconds, -2, 1)>>, 2, 3)
             = <<PowerType(Meters, 2, 3), PowerType(Seconds, -4, 3)>>

\* pow<1, -2> of a Unit of scale MaxScale in [Meters^1, Seconds^-1/2].
C19_Witness ==
    /\ op.name = "pow" /\ op.p = 1 /\ op.q = -2
    /\ PowOperand.scale = MaxScale
    /\ a = <<PowerType(Meters, 1, 1), PowerType(Seconds, -1, 2)>>
    /\ b = <<PowerType(Meters, 1, 1)>>
    /\ r.scale = 1
    /\ r.dim = <<PowerType(Meters, -1, 2), PowerType(Seconds, 1, 4)>>
    /\ r.sem = <<PowerType(Meters, -1, 2)>>

(***************************************************************************)
(* Properties of the casts, on Spec.                                       *)
(***************************************************************************)

\* C20: semantic_cast<S>(a) has the semantic pack S and the value, scale and
\* dimension pack of a; unit_cast<D>(a) has the dimension pack D and the
\* value, scale and semantic pack of a, whatever the dimension pack of a is
\* (S and D being packs a Unit can hold).
C20_CastsRelabelOnePack ==
    /\ (op.name = "semantic_cast" /\ StrictlyAscending(op.target)) =>
          /\ IsUnit(r)
          /\ r.sem = op.target
          /\ r.val = a.val /\ r.scale = a.scale /\ r.dim = a.dim
    /\ (op.name = "unit_cast" /\ StrictlyAscending(op.target)) =>
          /\ IsUnit(r)
          /\ r.dim = op.target
          /\ r.val = a.val /\ r.scale = a.scale /\ r.sem = a.sem

\* A Length of 2 in meters at scale 2 is cast to [Meters^1, Seconds^1].
C20_Witness ==
    /\ op.name = "unit_cast"
    /\ a.dim = P1(Meters) /\ a.sem = P1(Length)
    /\ a.val = RatInt(2) /\ a.scale = 2
    /\ op.target = <<PowerType(Meters, 1, 1), PowerType(Seconds, 1, 1)>>
    /\ IsUnit(r)
    /\ r.dim = op.target
    /\ get_in_base_scale(r) = RatInt(4)

(***************************************************************************)
(* Properties of PowerType, on PowerTypeSpec.                              *)
(***************************************************************************)

\* C21: PowerType<Unit, num, den> is accepted if and only if den > 0 and
\* num/den is in lowest terms (a zero exponent only as 0/1); every other
\* (num, den) is rejected.
C21_PowerTypeAcceptedIffLowestTerms ==
    (op.name = "power_type") =>
        /\ r \in {Rejected, Type(<<PowerType(op.target[1], op.p, op.q)>>)}
        /\ IsType(r) <=> (op.q > 0 /\ LowestTerms(op.p, op.q))

\* -3/2 is accepted, and 0/2, 2/2, 1/-1 and 1/0 were each rejected in some
\* program; the state is the one that rejected 0/2.
C21_Witness ==
    /\ op.name = "power_type"
    /\ op.p = 0 /\ op.q = 2
    /\ r = Rejected
    /\ PowerTypeOK(PowerType(Meters, -3, 2))
    /\ PowerTypeOK(PowerType(Meters, 0, 1))
    /\ ~PowerTypeOK(PowerType(Meters, 2, 2))
    /\ ~PowerTypeOK(PowerType(Meters, 1, -1))
    /\ ~PowerTypeOK(PowerType(Meters, 1, 0))

(***************************************************************************)
(* Properties of the member operators and of products, on Spec.            *)
(***************************************************************************)

\* x is y + sign * z * sZ / sY, by cross-multiplication
IsRescaledSum(x, y, z, sY, sZ, sign) ==
    x.n * (y.d * z.d * sY) = x.d * (y.n * z.d * sY + sign * z.n * sZ * y.d)

\* C25: for Units a and b accepted by + or - (and by += or -=), the result
\* has a's scale, semantic pack and dimension pack and the value
\* a.val + b.val*sB/sA (respectively a.val - b.val*sB/sA); += and -= leave
\* that result in a.
C25_AddSubRescaleRight ==
    /\ (op.name \in {"add", "sub"} /\ IsUnit(a) /\ IsUnit(b) /\ IsUnit(r)) =>
          /\ r.scale = a.scale /\ r.sem = a.sem /\ r.dim = a.dim
          /\ IsRescaledSum(r.val, a.val, b.val, a.scale, b.scale,
                           IF op.name = "add" THEN 1 ELSE -1)
    /\ (op.name \in {"add_assign", "sub_assign"} /\ IsUnit(b) /\ IsUnit(r)) =>
          /\ IsUnit(src.a) /\ src.name = op.name
          /\ a = r
          /\ r.scale = src.a.scale /\ r.sem = src.a.sem /\ r.dim = src.a.dim
          /\ IsRescaledSum(r.val, src.a.val, b.val, src.a.scale, b.scale,
                           IF op.name = "add_assign" THEN 1 ELSE -1)

\* 1 at scale 2 minus-assigned 1 at scale 1 is 1/2 at scale 2.
C25_Witness ==
    /\ op.name = "sub_assign"
    /\ src.a.val = RatInt(1) /\ src.a.scale = 2
    /\ b.val = RatInt(1) /\ b.scale = 1
    /\ b.sem = P1(Length) /\ src.a.sem = EmptyPack
    /\ IsUnit(r) /\ r.val = Rat(1, 2) /\ r.scale = 2
    /\ a = r

\* The semantic pack the value of a originated with
Origin == IF src.name = "as_free_unit" THEN src.a.sem ELSE a.sem

\* C26: without a semantic_cast, no value that originated with a non-empty
\* semantic pack S1 is added into or assigned to a quantity with a different
\* non-empty semantic pack S2, also when it passed through a quantity with
\* the empty semantic pack.
C26_NoSemanticInterchange ==
    /\ (op.name = "convert" /\ IsUnit(r)
            /\ Origin # EmptyPack /\ r.sem # EmptyPack) => r.sem = Origin
    /\ (/\ op.name \in {"add", "sub", "add_assign", "sub_assign", "assign"}
        /\ IsUnit(b) /\ IsUnit(r)
        /\ b.sem # EmptyPack /\ r.sem # EmptyPack) => r.sem = b.sem

\* C27: for Units a, b, c with canonical packs, a*b and b*a have the same
\* dimension and semantic packs, and so have (a*b)*c and a*(b*c) when the
\* intermediate products are not dimensionless; either both sides are
\* accepted or neither is.
C27_ProductPacksOrderIndependent ==
    (op.name = "mul" /\ IsUnit(a) /\ IsUnit(b)) =>
        LET ab == Mul(a, b)
            ba == Mul(b, a)
        IN  /\ r = ab
            /\ ab.kind = ba.kind
            /\ (IsUnit(ab) => (ab.dim = ba.dim /\ ab.sem = ba.sem))
            /\ \A c \in {x \in Literals : IsUnit(x)} :
                  LET bc == Mul(b, c)
                  IN  (IsUnit(ab) /\ IsUnit(bc)) =>
                        /\ Mul(ab, c).kind = Mul(a, bc).kind
                        /\ (IsUnit(Mul(ab, c)) =>
                              /\ Mul(ab, c).dim = Mul(a, bc).dim
                              /\ Mul(ab, c).sem = Mul(a, bc).sem)

\* (Length meters * Width seconds) * (Width seconds): b*a combines the
\* packs the other way round and ends with the same two packs, at another
\* scale.
C27_Witness ==
    /\ op.name = "mul"
    /\ a.dim = <<PowerType(Meters, 1, 1), PowerType(Seconds, 1, 1)>>
    /\ a.sem = <<PowerType(Length, 1, 1), PowerType(Width, 1, 1)>>
    /\ b.dim = P1(Seconds) /\ b.sem = P1(Width)
    /\ IsUnit(r)
    /\ r.dim = <<PowerType(Meters, 1, 1), PowerType(Seconds, 2, 1)>>
    /\ r.sem = <<PowerType(Length, 1, 1), PowerType(Width, 2, 1)>>
    /\ Mul(b, a).dim = r.dim /\ Mul(b, a).sem = r.sem
    /\ Mul(b, a).scale # r.scale

\* C30: u-- returns a copy holding the value before the operation and leaves
\* u.val one less than before; u++ returns the old value and leaves u.val
\* one greater.
C30_PostfixStepsByOne ==
    /\ (op.name = "post_dec") =>
          /\ r = src.a
          /\ a.val = RatSub(src.a.val, RatInt(1))
    /\ (op.name = "post_inc") =>
          /\ r = src.a
          /\ a.val = RatAdd(src.a.val, RatInt(1))

(***************************************************************************)
(* Properties of order_t, on OrderSpec.                                    *)
(***************************************************************************)

\* B is a base class of D other than D itself
ProperBase(B, D) == B # D /\ is_base_of_v(B, D)

\* How many times class c occurs in list l
Occurrences(c, l) == Cardinality({i \in 1..Len(l) : l[i] = c})

\* r.list is a permutation of a
OrderIsPermutation ==
    \A c \in Classes : Occurrences(c, r.list) = Occurrences(c, a)

\* C24: order_t<list, DerivedSort> is a permutation of list in which no
\* class appears before a class derived from it, for every list and order.
C24_MostDerivedFirst ==
    (op.name = "order") =>
        /\ OrderIsPermutation
        /\ \A i, j \in 1..Len(r.list) :
              i < j => ~ProperBase(r.list[i], r.list[j])

(***************************************************************************)
(* Properties of the longevity tracker, on LongevitySpec.                  *)
(***************************************************************************)

\* How many times Singleton s was destroyed
TimesDestroyed(s) == Cardinality({i \in 1..Len(called) : called[i] = s})

\* The longevity of the i-th Singleton destroyed
LongevityOf(i) == policy[called[i]].destruction.longevity

\* The process has ended, and every get() that created an object was called
\* before exit began.
EndedAfterEarlyGets ==
    /\ phase \in {"exited", "aborted"}
    /\ \A i \in 1..Len(objects) : objects[i].made = "running"

\* C22: Singletons with LongevityDestructionPolicy are destroyed at exit in
\* non-decreasing order of longevity, whatever the order of their first
\* get(), and each scheduled destroyer runs exactly once.
C22_DestroyedInLongevityOrder ==
    EndedAfterEarlyGets =>
        /\ \A i, j \in 1..Len(called) : i < j => LongevityOf(i) <= LongevityOf(j)
        /\ \A s \in Singletons : TimesDestroyed(s) = (IF instance[s] # 0 THEN 1 ELSE 0)

\* C29: a scheduleDestruction touches only the indices 0..lifetimeElements
\* of lifetimeManager (its lifetimeElements + 1 slots) and never uses the
\* array after popLifetimeArray freed it.
C29_ScheduleStaysInArray ==
    /\ lastSchedule.indices \subseteq 0..lastSchedule.elements
    /\ ~lastSchedule.afterFree

(***************************************************************************)
(* Properties of Singleton::get, on SingletonSpec.                         *)
(***************************************************************************)

\* Singleton s was destroyed: its onDestroy has run
Destroyed(s) == TimesDestroyed(s) > 0

\* C23: after onDestroy has run, the next get() throws DeadReferenceException
\* under ErrorDeadRefPolicy and returns a fresh instance under
\* ReviveDeadRefPolicy; get() never returns a reference to the destroyed
\* instance.
C23_DeadReferencePolicyApplied ==
    \A t \in Threads :
        /\ ret[t].kind = "reference" => ~ret[t].dangling
        /\ (pc[t] = "return" /\ Destroyed(callee[t])) =>
              /\ policy[callee[t]].death = "ReviveDeadRefPolicy"
              /\ ~objects[instance[callee[t]]].freed

\* How many objects were created for Singleton s
TimesCreated(s) == Cardinality({i \in 1..Len(objects) : objects[i].of = s})

\* How many destructions of Singleton s are registered
TimesScheduled(s) ==
    Cardinality({i \in 1..Len(atexitStack) : atexitStack[i] = [fn |-> "onDestroy", s |-> s]})

\* With SingletonLockGuard and before exit, at most one object is created and
\* at most one destruction scheduled, whatever the interleaving.
AtMostOnce(s) ==
    (policy[s].lock = "SingletonLockGuard" /\ phase = "running") =>
        /\ TimesCreated(s) <= 1
        /\ TimesScheduled(s) <= 1
        /\ \A t \in Threads :
              ret[t].kind = "reference" => ret[t].object = instance[s]

\* C28: with SingletonLockGuard, for any interleaving of get() calls on a
\* Singleton not created yet, the instance is created once, its destruction
\* is scheduled once, and every call returns that instance.
C28_CreatedOnceUnderLock ==
    \A s \in Singletons :
        /\ AtMostOnce(s)
        /\ (policy[s].lock = "SingletonLockGuard" /\ phase = "running") =>
              \A t \in Threads :
                  ret[t].kind # "none" =>
                      /\ ret[t].kind = "reference"
                      /\ TimesCreated(s) = 1
                      /\ AllIdle => TimesScheduled(s) = 1

=============================================================================
